---- MODULE Spec2Model ----
(***************************************************************************)
(* A model of the tool-orchestration loop of AppAgent-AutoModel:           *)
(*   src/src/chat_agent.py      ChatAgent.chat and its nested helpers      *)
(*   src/src/skills/__init__.py execute_skill                              *)
(*   src/src/browser_tool.py    the browser session registry in the worker *)
(*   src/src/android_tool.py    the device session registry, tap_coordinates*)
(*                                                                         *)
(* Spec     : chat() runs, one after another, against the two registries.  *)
(* SpecTap  : android_tool.tap_coordinates applied to bounded inputs.      *)
(* SpecDec  : the decisions chat() takes on one ToolResult, applied to     *)
(*            every ToolResult of the wire shape.                          *)
(***************************************************************************)
EXTENDS Integers, Sequences, FiniteSets, TLC

\* ------------------------------------------------------------------ bounds
\* session ids (uuid4 values) that can be handed out in one behaviour
MaxIds == 2
\* tool calls the reasoning service may request in one turn
MaxCalls == 2
\* cap on the consecutive-empty-search counter
MaxStreak == 2

\* the round budget the model runs chat() with.  chat_agent.py:369 sets
\* max_rounds = 40; nothing in the loop reads the number except the range()
\* of the for statement, so the model runs the same loop with a small budget.
MaxRounds == 2
max_rounds == MaxRounds

NoSid == 0
Ids == 1..MaxIds

VARIABLES
  \* --- position and result of the current chat() call
  pc,                          \* "idle" | "round" | "calls" | "done" | "raised"
  state,                       \* RunState
  emitted,                     \* the states of this run's state_change events, in order
  round,                       \* iterations of `for _ in range(max_rounds)` begun
  review_calls,                \* no-tools reasoning-service calls of this run
  review_reply,                \* "none" | "text" | "empty" | "raise"
  menu,                        \* the tools the reasoning service asks for in this run
  \* --- locals of chat()
  mobile_only,
  workflow_plan,               \* step id -> status; the empty function when no plan
  phone,                       \* extract_phone over the Conversation finds a number
  active_browser_session_id,
  active_android_session_id,
  auto_filled_phone,
  auto_checked_agreement,
  auto_clicked_code_btn,
  is_game_ui,
  find_empty_streak,
  \* --- the turn being dispatched
  n_calls,                     \* len(tool_calls) of the current turn
  ci,                          \* calls of the turn already handled
  tool_ids,                    \* tool_call_id of each tool message appended since
                               \* the last reasoning-service call, in order
  step_msgs,                   \* the messages the last step appended
  last,                        \* name, session id and ToolResult of the last call
  \* --- autopilot history of this run
  tried,                       \* the autopilot actions attempted so far in this run
  auto_now,                    \* the autopilot actions the last step attempted
  \* --- module-level registries
  browser_SESSIONS,            \* browser_tool._SESSIONS (in the worker)
  android_SESSIONS,            \* android_tool._SESSIONS
  next_uuid,                   \* the next fresh uuid4
  destroyed,                   \* the session ids a close or stop has destroyed
  lost,                        \* the session ids that ended with a dead worker
  \* --- a function of the program applied on its own (SpecTap, SpecDec)
  probe                        \* its arguments and, once applied, its result

loopVars == <<pc, state, emitted, round, review_calls, review_reply, menu,
              mobile_only, workflow_plan, phone,
              active_browser_session_id, active_android_session_id,
              auto_filled_phone, auto_checked_agreement, auto_clicked_code_btn,
              is_game_ui, find_empty_streak, n_calls, ci, tool_ids, step_msgs, last,
              tried, auto_now>>
regVars == <<browser_SESSIONS, android_SESSIONS, next_uuid, destroyed, lost>>
vars == <<loopVars, regVars, probe>>

\* ------------------------------------------------------------ ToolResult
\* A ToolResult, reduced to the keys the loop reads.  raised = TRUE stands for
\* "the call did not return: an exception left execute_skill".
NoResult ==
  [raised |-> FALSE, success |-> "absent", error |-> "none", session_id |-> NoSid,
   reused |-> FALSE, reused_by_orchestrator |-> FALSE, small |-> FALSE,
   found |-> 0, screenshot |-> FALSE, phone_input |-> FALSE]

Raised == [NoResult EXCEPT !.raised = TRUE]
Ok == [NoResult EXCEPT !.success = "true"]
Failure(err) == [NoResult EXCEPT !.success = "false", !.error = err]

\* ------------------------------------------------------------ skill table
KnownSkills ==
  {"web_search", "browser_start", "browser_close", "browser_open",
   "browser_get_visible_inputs", "browser_screenshot",
   "android_list_devices", "android_start", "android_stop",
   "android_dump_ui", "android_find_elements", "android_screenshot"}

\* the names the reasoning service may ask for: the catalog and one stray name
Names == KnownSkills \cup {"no_such_skill"}

\* Within one run the reasoning service keeps to one of two menus: the tools
\* that open, use and close sessions, or the tools that read the screen.
Menus == {"sessions", "screen"}

MenuNames(m) ==
  IF m = "sessions"
  THEN {"web_search", "browser_start", "browser_close", "browser_open",
        "android_list_devices", "android_start", "android_stop", "no_such_skill"}
  ELSE {"browser_start", "android_start", "android_dump_ui", "android_find_elements",
        "android_screenshot", "browser_get_visible_inputs", "browser_screenshot"}

IsBrowser(name) ==
  name \in {"browser_start", "browser_close", "browser_open",
            "browser_get_visible_inputs", "browser_screenshot"}

IsAndroid(name) ==
  name \in {"android_list_devices", "android_start", "android_stop",
            "android_dump_ui", "android_find_elements", "android_screenshot"}

\* skill_* functions whose signature has a required session_id parameter
TakesSessionId(name) ==
  name \in {"browser_close", "browser_open", "browser_get_visible_inputs",
            "browser_screenshot", "android_stop", "android_dump_ui",
            "android_find_elements", "android_screenshot"}

\* the session_id values the reasoning service may put in the arguments
ArgSids(name) ==
  IF TakesSessionId(name) THEN {NoSid} \cup Ids
  ELSE IF name \in {"browser_start", "android_start"} THEN {NoSid, 1}
  ELSE {NoSid}

\* What the world outside the loop decides about one call:
\*   out  - the operation works, fails, or an exception escapes it (the
\*          implementation raises, or `skill_x(ctx, **arguments)` cannot bind
\*          the arguments the reasoning service sent)
\*   flag - the one datum of a successful result the loop reads (small xml,
\*          a match, a phone placeholder); for browser_close that raises,
\*          whether the session was already popped
Env == [out : {"ok", "fail", "raise"}, flag : BOOLEAN]

\* `skill_x(ctx, **arguments)`: a TypeError when session_id is required and
\* missing, or given and not a parameter
BindsArguments(name, sid) ==
  IF TakesSessionId(name) THEN sid # NoSid
  ELSE name = "android_list_devices" \/ sid = NoSid

\* the id a start operation would register
NewSid == next_uuid

\* start_session_impl without the reuse of a registered session
start_session_implAlwaysNew(env) ==
  IF env.out = "ok" THEN [NoResult EXCEPT !.session_id = NewSid] ELSE Raised

\* browser_tool._start_session_impl
start_session_impl(env) ==
  IF browser_SESSIONS # {}
  THEN [NoResult EXCEPT !.session_id = CHOOSE s \in browser_SESSIONS : TRUE,
                        !.reused = TRUE]
  ELSE IF env.out = "ok" THEN [NoResult EXCEPT !.session_id = NewSid]
  ELSE Raised

\* browser_tool._close_session_impl
close_session_impl(sid, env) ==
  IF sid \notin browser_SESSIONS THEN Failure("session_not_found")
  ELSE IF env.out = "ok" THEN Ok
  ELSE Raised

\* browser_tool._open_url_impl, _get_visible_inputs_impl, _screenshot_impl
browser_op_impl(name, sid, env) ==
  IF sid \notin browser_SESSIONS THEN Failure("session_not_found")
  ELSE IF env.out = "raise" THEN Raised
  ELSE IF env.out = "fail" THEN Failure("browser_error")
  ELSE [Ok EXCEPT !.phone_input = (name = "browser_get_visible_inputs" /\ env.flag),
                  !.screenshot = (name = "browser_screenshot")]

\* android_tool.list_devices
list_devices(env) ==
  IF env.out = "ok" THEN Ok ELSE Failure("adb_not_available")

\* android_tool.start_session
android_start_session(env) ==
  IF env.out = "raise" THEN Raised
  ELSE IF env.out = "fail" THEN Failure(IF env.flag THEN "no_device" ELSE "adb_error")
  ELSE [Ok EXCEPT !.session_id = NewSid]

\* android_tool.stop_session
stop_session(sid, env) ==
  IF env.out = "raise" THEN Raised
  ELSE IF sid \notin android_SESSIONS THEN Failure("session_not_found")
  ELSE Ok

\* android_tool.dump_ui, find_elements, screenshot
android_op(name, sid, env) ==
  IF env.out = "raise" THEN Raised
  ELSE IF sid \notin android_SESSIONS THEN Failure("session_not_found")
  ELSE IF env.out = "fail"
       THEN Failure(IF name = "android_find_elements" THEN "uiautomator2_required"
                    ELSE "adb_error")
  ELSE [Ok EXCEPT !.small = (name = "android_dump_ui" /\ env.flag),
                  !.found = IF name = "android_find_elements" /\ env.flag THEN 1 ELSE 0,
                  !.screenshot = (name = "android_screenshot")]

\* skills.execute_skill
execute_skill(name, sid, env) ==
  IF name \notin KnownSkills THEN [NoResult EXCEPT !.error = "Unknown skill"]
  ELSE IF ~BindsArguments(name, sid) THEN Raised
  ELSE IF name = "web_search"
       THEN (IF env.out = "raise" THEN Raised
             ELSE IF env.out = "fail" THEN Failure("search_api_url_missing")
             ELSE Ok)
  ELSE IF name = "browser_start" THEN start_session_impl(env)
  ELSE IF name = "browser_close" THEN close_session_impl(sid, env)
  ELSE IF IsBrowser(name) THEN browser_op_impl(name, sid, env)
  ELSE IF name = "android_list_devices" THEN list_devices(env)
  ELSE IF name = "android_start" THEN android_start_session(env)
  ELSE IF name = "android_stop" THEN stop_session(sid, env)
  ELSE android_op(name, sid, env)

\* the registries after execute_skill(name, sid, env)
BrowserSessionsAfter(name, sid, env) ==
  IF ~BindsArguments(name, sid) THEN browser_SESSIONS
  ELSE IF name = "browser_start" /\ browser_SESSIONS = {} /\ env.out = "ok"
       THEN {NewSid}
  ELSE IF name = "browser_close" /\ (env.out = "ok" \/ env.flag)
       THEN browser_SESSIONS \ {sid}
  ELSE browser_SESSIONS

AndroidSessionsAfter(name, sid, env) ==
  IF ~BindsArguments(name, sid) THEN android_SESSIONS
  ELSE IF name = "android_start" /\ env.out = "ok"
       THEN android_SESSIONS \cup {NewSid}
  ELSE IF name = "android_stop" /\ env.out # "raise"
       THEN android_SESSIONS \ {sid}
  ELSE android_SESSIONS

CreatesSession(name, sid, env) ==
  /\ BindsArguments(name, sid)
  /\ env.out = "ok"
  /\ \/ name = "browser_start" /\ browser_SESSIONS = {}
     \/ name = "android_start"

\* the outcomes the world can give a call of this name
EnvFor(name) ==
  {e \in Env :
     /\ name \in {"android_list_devices", "no_such_skill"} => e.out # "raise"
     /\ name \in {"browser_start", "browser_close", "android_stop"} => e.out # "fail"
     /\ e.flag => \/ name \in {"browser_get_visible_inputs", "android_dump_ui",
                               "android_find_elements"} /\ e.out = "ok"
                  \/ name = "browser_close" /\ e.out = "raise"
                  \/ name = "android_start" /\ e.out = "fail"}

\* ------------------------------------------------------- workflow helpers
StepIds == {"collect_info", "search_topic", "draft_post", "open_xhs", "publish_note"}

EmptyPlan == [s \in {} |-> "pending"]

\* workflows.xhs_publish.create_plan: every step pending
create_plan == [s \in StepIds |-> "pending"]

\* workflows.xhs_publish.update_step: a step id the plan lacks changes nothing
update_step(plan, step_id, status) ==
  IF step_id \in DOMAIN plan THEN [plan EXCEPT ![step_id] = status] ELSE plan

\* ------------------------------------------------------------ Conversation
Msg(role, kind, id) == [role |-> role, kind |-> kind, id |-> id]

ToolMsg(id) == Msg("tool", "result", id)
CorrectiveMsg == Msg("system", "corrective", 0)
GameModeMsg == Msg("system", "game_mode", 0)
ImageMsg == Msg("user", "image", 0)
NudgeMsg == Msg("system", "nudge", 0)
AssistantMsg == Msg("assistant", "tool_calls", 0)
ReadyMsg == Msg("system", "android_ready", 0)
AutoMsg(action) == Msg("system", action, 0)

\* ------------------------------------------------- decisions on a ToolResult
\* a loop that takes no result for a failure
IsFailureNever(res) == FALSE

\* `result.get("success") is False`
IsFailure(res) == res.success = "false"

\* `result.get("success")` used as a condition
IsTruthySuccess(res) == res.success = "true"

\* an injection that puts the active session over whatever the call carries
InjectSessionIdOverwrites(name, sid) ==
  IF IsBrowser(name) /\ active_browser_session_id # NoSid THEN active_browser_session_id
  ELSE IF IsAndroid(name) /\ active_android_session_id # NoSid
  THEN active_android_session_id
  ELSE sid

\* chat(): the argument normalisation before a dispatch (session-id injection)
InjectSessionId(name, sid) ==
  IF /\ IsBrowser(name) /\ name \notin {"browser_start", "browser_close"}
     /\ sid = NoSid /\ active_browser_session_id # NoSid
  THEN active_browser_session_id
  ELSE IF /\ IsAndroid(name)
          /\ name \notin {"android_start", "android_list_devices", "android_stop"}
          /\ sid = NoSid /\ active_android_session_id # NoSid
  THEN active_android_session_id
  ELSE sid

\* chat(): the branch that answers a call without execute_skill
Gated(name) ==
  \/ mobile_only /\ IsBrowser(name)
  \/ name = "browser_start" /\ active_browser_session_id # NoSid
  \/ name = "android_start" /\ active_android_session_id # NoSid

\* skills.skill_browser_*: the call is handed to _run_in_browser_process
ReachesWorker(name, sid) ==
  ~Gated(name) /\ IsBrowser(name) /\ name \in KnownSkills /\ BindsArguments(name, sid)

\* _close_session_impl / stop_session answered success: the session is gone
Destroys(name, res) ==
  name \in {"browser_close", "android_stop"} /\ IsTruthySuccess(res)

\* Dispatch without the mobile-only policy branch
DispatchNoPolicy(name, sid, env) ==
  IF name = "browser_start" /\ active_browser_session_id # NoSid
       THEN [NoResult EXCEPT !.session_id = active_browser_session_id,
                             !.reused_by_orchestrator = TRUE]
  ELSE IF name = "android_start" /\ active_android_session_id # NoSid
       THEN [Ok EXCEPT !.session_id = active_android_session_id,
                       !.reused_by_orchestrator = TRUE]
  ELSE execute_skill(name, sid, env)

\* chat(): the ToolResult of one requested call
Dispatch(name, sid, env) ==
  IF mobile_only /\ IsBrowser(name) THEN Failure("pc_browser_disabled")
  ELSE IF name = "browser_start" /\ active_browser_session_id # NoSid
       THEN [NoResult EXCEPT !.session_id = active_browser_session_id,
                             !.reused_by_orchestrator = TRUE]
  ELSE IF name = "android_start" /\ active_android_session_id # NoSid
       THEN [Ok EXCEPT !.session_id = active_android_session_id,
                       !.reused_by_orchestrator = TRUE]
  ELSE execute_skill(name, sid, env)

\* a counter that a search with matches leaves as it is
StreakAfterNoReset(name, res) ==
  IF name = "android_find_elements" /\ res.found = 0 /\ find_empty_streak < MaxStreak
  THEN find_empty_streak + 1
  ELSE find_empty_streak

\* chat(): game-mode detection on one result; the new counter and flag.  The
\* counter is only ever compared with 2, so it is kept up to MaxStreak.
StreakAfter(name, res) ==
  IF name = "android_find_elements"
  THEN (IF res.found = 0
        THEN (IF find_empty_streak < MaxStreak THEN find_empty_streak + 1 ELSE MaxStreak)
        ELSE 0)
  ELSE find_empty_streak

\* GameAfterDump that works the flag out again from each result
GameAfterDumpOnly(name, res) ==
  name = "android_dump_ui" /\ IsTruthySuccess(res) /\ res.small

GameAfterDump(name, res) ==
  is_game_ui \/ (name = "android_dump_ui" /\ IsTruthySuccess(res) /\ res.small)

GameAfter(name, res) ==
  GameAfterDump(name, res)
    \/ (name = "android_find_elements" /\ StreakAfter(name, res) >= 2)

GameMsgs(name, res) ==
  IF ~is_game_ui /\ GameAfter(name, res) THEN <<GameModeMsg>> ELSE <<>>

\* chat(): screenshot injection; `encoded` says that the model takes images
\* (self.is_vision) and _encode_image gave a data URI
ImageMsgs(name, res, encoded) ==
  IF /\ name \in {"android_screenshot", "browser_screenshot"}
     /\ IsTruthySuccess(res) /\ res.screenshot /\ encoded
  THEN <<ImageMsg>> ELSE <<>>

\* ------------------------------------------------------------ autopilot
Actions == {"fill", "agree", "code"}

\* What the device or page answers to the autopilot's own tool calls
AutoEnv == [fill : BOOLEAN, agree : BOOLEAN, code : BOOLEAN]
NoAuto == [fill |-> FALSE, agree |-> FALSE, code |-> FALSE]

\* AutoPass that tries the agreement before the phone number is in
AutoPassAgreeUnfilled(live, can_fill, ae) ==
  LET doFill  == live /\ can_fill /\ ~auto_filled_phone
      filled  == IF doFill THEN ae.fill ELSE auto_filled_phone
      doAgree == live /\ ~auto_checked_agreement
      checked == IF doAgree THEN ae.agree ELSE auto_checked_agreement
      doCode  == live /\ filled /\ ~auto_clicked_code_btn
      clicked == IF doCode THEN ae.code ELSE auto_clicked_code_btn
  IN [tried |-> [fill |-> doFill, agree |-> doAgree, code |-> doCode],
      filled |-> filled, checked |-> checked, clicked |-> clicked]

\* AutoPass that clicks send-code on every trigger once the number is in
AutoPassReclick(live, can_fill, ae) ==
  LET doFill  == live /\ can_fill /\ ~auto_filled_phone
      filled  == IF doFill THEN ae.fill ELSE auto_filled_phone
      doAgree == live /\ filled /\ ~auto_checked_agreement
      checked == IF doAgree THEN ae.agree ELSE auto_checked_agreement
      doCode  == live /\ filled
      clicked == IF doCode THEN ae.code ELSE auto_clicked_code_btn
  IN [tried |-> [fill |-> doFill, agree |-> doAgree, code |-> doCode],
      filled |-> filled, checked |-> checked, clicked |-> clicked]

\* One pass of the login autopilot: which actions it attempts and the flags
\* after it.  can_fill is the path's own condition for the fill step.
AutoPass(live, can_fill, ae) ==
  LET doFill  == live /\ can_fill /\ ~auto_filled_phone
      filled  == IF doFill THEN ae.fill ELSE auto_filled_phone
      doAgree == live /\ filled /\ ~auto_checked_agreement
      checked == IF doAgree THEN ae.agree ELSE auto_checked_agreement
      doCode  == live /\ filled /\ ~auto_clicked_code_btn
      clicked == IF doCode THEN ae.code ELSE auto_clicked_code_btn
  IN [tried |-> [fill |-> doFill, agree |-> doAgree, code |-> doCode],
      filled |-> filled, checked |-> checked, clicked |-> clicked]

NoPass ==
  [tried |-> [fill |-> FALSE, agree |-> FALSE, code |-> FALSE],
   filled |-> auto_filled_phone, checked |-> auto_checked_agreement,
   clicked |-> auto_clicked_code_btn]

\* chat(): which autopilot pass, if any, follows the result of a requested call;
\* android_sid and browser_sid are the active pointers after the result
Autopilot(name, res, android_sid, browser_sid, ae) ==
  IF mobile_only /\ name = "android_dump_ui" /\ IsTruthySuccess(res)
  THEN AutoPass(android_sid # NoSid, phone, ae)
  ELSE IF ~mobile_only /\ name = "browser_get_visible_inputs" /\ IsTruthySuccess(res)
  THEN AutoPass(browser_sid # NoSid, phone /\ res.phone_input, ae)
  ELSE NoPass

\* the system messages the browser path appends; the device path appends none
AutoMsgs(name, pass) ==
  IF name = "browser_get_visible_inputs"
  THEN (IF pass.tried.fill THEN <<AutoMsg("auto_fill")>> ELSE <<>>)
       \o (IF pass.tried.agree THEN <<AutoMsg("auto_agree")>> ELSE <<>>)
       \o (IF pass.tried.code THEN <<AutoMsg("auto_code")>> ELSE <<>>)
  ELSE <<>>

\* the actions one pass attempts
Attempted(pass) == {a \in Actions : pass.tried[a]}

\* the autopilot's own calls go to the session the pointer names: they can
\* succeed only while that session is in its registry
AutoEnvFor(pass, name, android_sid, browser_sid, android_live, browser_live) ==
  {ae \in AutoEnv :
     /\ \A a \in Actions : ae[a] => pass.tried[a]
     /\ (ae.fill \/ ae.agree \/ ae.code) =>
           \/ name = "android_dump_ui" /\ android_sid \in android_live
           \/ name = "browser_get_visible_inputs" /\ browser_sid \in browser_live}

\* --------------------------------------------------------------- chat()
NoCall == [name |-> "none", sid |-> NoSid, res |-> NoResult, via_worker |-> FALSE,
           reply |-> <<>>, opened |-> "none"]

\* append_tool_message that puts the newest outcome first
append_tool_messageFirst(ids, call_id) == <<call_id>> \o ids

\* `messages.append({"role": "tool", "tool_call_id": call.id, ...})`
append_tool_message(ids, call_id) == Append(ids, call_id)

\* the Conversation chat() starts from, after the planning state
PlanMsgs(mobile) ==
  IF mobile THEN <<Msg("system", "plan", 0), Msg("system", "mobile_only", 0)>> ELSE <<>>

\* the locals of chat() as it sets them before the first round; they are also
\* what is left of them once chat() has returned or raised
FreshLocals ==
  /\ active_browser_session_id' = NoSid
  /\ auto_filled_phone' = FALSE
  /\ auto_checked_agreement' = FALSE
  /\ auto_clicked_code_btn' = FALSE
  /\ is_game_ui' = FALSE
  /\ find_empty_streak' = 0
  /\ n_calls' = 0
  /\ ci' = 0
  /\ tool_ids' = <<>>
  /\ tried' = {}
  /\ auto_now' = {}

EnterChat(mobile, ph, m) ==
  /\ pc \in {"idle", "done", "raised"}
  /\ FreshLocals
  /\ mobile_only' = mobile
  /\ phone' = ph
  /\ menu' = m
  /\ round' = 0
  /\ review_calls' = 0
  /\ review_reply' = "none"
  /\ probe' = probe

\* chat() returns (to = "done") or an exception leaves it (to = "raised")
LeaveChat(to) ==
  /\ pc' = to
  /\ FreshLocals
  /\ active_android_session_id' = NoSid
  /\ step_msgs' = <<>>
  /\ mobile_only' = FALSE
  /\ phone' = FALSE
  /\ menu' = "sessions"
  /\ UNCHANGED <<workflow_plan, round, probe>>

\* chat() called with a message that is not a publish request
StartChat ==
  /\ \E ph \in BOOLEAN, m \in Menus : EnterChat(FALSE, ph, m)
  /\ workflow_plan' = EmptyPlan
  /\ active_android_session_id' = NoSid
  /\ step_msgs' = PlanMsgs(FALSE)
  /\ last' = NoCall
  /\ state' = "executing"
  /\ emitted' = <<"planning", "executing">>
  /\ pc' = "round"
  /\ UNCHANGED regVars

BootProceedsAlways(res) == TRUE

\* _mobile_bootstrap: `if not listed.get("success")` / `if not started.get("success")`
BootProceeds(res) == IsTruthySuccess(res)

\* android_tool.open_app as _mobile_bootstrap calls it, on the session it
\* has just started: the result is a success or an adb failure
open_app(env) == IF env.out = "ok" THEN Ok ELSE Failure("adb_error")

\* the outcomes of the bridge in _mobile_bootstrap: android_tool guards its
\* calls, so neither list_devices nor start_session raises there
BootEnv == {e \in Env : e.out # "raise"}

\* chat() called with a publish request: the plan, then _mobile_bootstrap
StartMobileChat ==
  /\ \E ph \in BOOLEAN, m \in Menus : EnterChat(TRUE, ph, m)
  /\ \E e1 \in BootEnv, e2 \in BootEnv, e3 \in {e \in BootEnv : ~e.flag}, shot \in BOOLEAN :
       LET listed == list_devices(e1)
           started == android_start_session(e2)
           ok == BootProceeds(listed) /\ BootProceeds(started)
           made == BootProceeds(listed) /\ e2.out = "ok"
       IN
       /\ ~e1.flag
       /\ ~BootProceeds(listed) => (e2.out = "fail" /\ ~e2.flag)
       /\ made => next_uuid <= MaxIds
       /\ shot => ok
       /\ android_SESSIONS' = IF made THEN android_SESSIONS \cup {NewSid} ELSE android_SESSIONS
       /\ next_uuid' = IF made THEN next_uuid + 1 ELSE next_uuid
       /\ active_android_session_id' = IF ok THEN started.session_id ELSE NoSid
       /\ workflow_plan' = IF ok THEN update_step(create_plan, "open_xhs", "completed")
                           ELSE create_plan
       /\ step_msgs' = PlanMsgs(TRUE)
                         \o (IF ok THEN <<ReadyMsg>> ELSE <<>>)
                         \o (IF shot THEN <<ImageMsg>> ELSE <<>>)
       /\ ~ok => e3 = [out |-> "ok", flag |-> FALSE]
       /\ last' = IF ~BootProceeds(listed)
                  THEN [name |-> "android_list_devices", sid |-> NoSid, res |-> listed,
                        via_worker |-> FALSE, reply |-> <<>>, opened |-> "none"]
                  ELSE IF ~BootProceeds(started)
                  THEN [name |-> "android_start", sid |-> NoSid, res |-> started,
                        via_worker |-> FALSE, reply |-> <<>>, opened |-> "none"]
                  ELSE [name |-> IF shot THEN "android_screenshot" ELSE "android_dump_ui",
                        sid |-> started.session_id,
                        res |-> [Ok EXCEPT !.screenshot = shot],
                        via_worker |-> FALSE, reply |-> <<>>,
                        opened |-> open_app(e3).success]
       /\ state' = IF ok THEN "executing" ELSE "waiting_user"
       /\ emitted' = <<"planning", "executing">>
                        \o (IF ok THEN <<>> ELSE <<"waiting_user">>)
       /\ pc' = IF ok THEN "round" ELSE "done"
  /\ UNCHANGED <<browser_SESSIONS, destroyed, lost>>

\* `for _ in range(max_rounds)`: one more reasoning-service call with tools
BeginRound ==
  /\ pc = "round"
  /\ round < max_rounds
  /\ round' = round + 1
  /\ last' = NoCall
  /\ probe' = probe

\* the locals a reasoning-service reply leaves alone
loopLocals == <<mobile_only, workflow_plan, phone, menu, active_browser_session_id,
                active_android_session_id, auto_filled_phone, auto_checked_agreement,
                auto_clicked_code_btn, is_game_ui, find_empty_streak, tried>>

\* the same without phone: the text of a reply may hold the first phone number
loopNoPhone == <<mobile_only, workflow_plan, menu, active_browser_session_id,
                 active_android_session_id, auto_filled_phone, auto_checked_agreement,
                 auto_clicked_code_btn, is_game_ui, find_empty_streak, tried>>

\* the reasoning-service call raises: nothing in chat() catches it
ReasoningRaises ==
  /\ pc = "round"
  /\ round < max_rounds
  /\ last' = [NoCall EXCEPT !.name = "create"]
  /\ LeaveChat("raised")
  /\ UNCHANGED <<state, emitted, review_calls, review_reply, regVars>>

\* the words of a reply that matter to chat(): the two question marks, the
\* six keys of needs_user_input (in pinyin), white space, and any other text
QuestionMarks == {"?", "fullwidth ?"}
InputKeys == {"qing tigong", "qing shuru", "yanzhengma", "mima", "duanxinma", "shouquanma"}
Blank == " "
Contents ==
  {<<>>, <<Blank>>, <<"hao">>, <<Blank, "hao">>, <<"hao", "?">>}
    \cup {<<w>> : w \in QuestionMarks \cup InputKeys}

\* `(msg.content or "").strip()`
strip(content) ==
  LET kept == {i \in DOMAIN content : content[i] # Blank} IN
  IF kept = {} THEN <<>>
  ELSE SubSeq(content, CHOOSE i \in kept : \A j \in kept : i <= j,
                       CHOOSE i \in kept : \A j \in kept : j <= i)

\* a heuristic that looks for the keys only
needs_user_inputKeysOnly(reply) == \E i \in DOMAIN reply : reply[i] \in InputKeys

\* chat(): needs_user_input
needs_user_input(reply) ==
  IF reply = <<>> THEN FALSE
  ELSE IF \E i \in DOMAIN reply : reply[i] \in QuestionMarks THEN TRUE
  ELSE \E i \in DOMAIN reply : reply[i] \in InputKeys

\* a loop that takes every reply without tool calls as final
NudgesNever(reply, plan) == FALSE

\* chat(): `if not reply and workflow_plan:` with a non-empty `pending`
Nudges(reply, plan) ==
  /\ reply = <<>>
  /\ \E s \in DOMAIN plan : plan[s] # "completed"

\* what the loop remembers of a reply without tool calls
Reply(reply) == [NoCall EXCEPT !.name = "reply", !.reply = reply]

\* no tool calls, and needs_user_input(reply)
ReplyNeedsInput ==
  /\ pc = "round"
  /\ round < max_rounds
  /\ \E content \in Contents :
       /\ needs_user_input(strip(content))
       /\ last' = Reply(strip(content))
  /\ state' = "waiting_user"
  /\ emitted' = Append(emitted, "waiting_user")
  /\ LeaveChat("done")
  /\ UNCHANGED <<review_calls, review_reply, regVars>>

\* no tool calls, a reply that asks nothing, and no nudge: the reply is final
ReplyFinal ==
  /\ pc = "round"
  /\ round < max_rounds
  /\ \E content \in Contents :
       /\ ~needs_user_input(strip(content))
       /\ ~Nudges(strip(content), workflow_plan)
       /\ last' = Reply(strip(content))
  /\ state' = "completed"
  /\ emitted' = Append(emitted, "completed")
  /\ LeaveChat("done")
  /\ UNCHANGED <<review_calls, review_reply, regVars>>

\* a nudge that does not use up an iteration of the loop
NudgedRoundFree(r) == r

\* `continue` after the nudge: the iteration of `for _ in range(max_rounds)` is spent
NudgedRound(r) == r + 1

\* no tool calls and an empty reply while the plan has a step not completed
ReplyEmptyNudge ==
  /\ pc = "round"
  /\ round < max_rounds
  /\ round' = NudgedRound(round)
  /\ probe' = probe
  /\ \E content \in Contents :
       /\ ~needs_user_input(strip(content))
       /\ Nudges(strip(content), workflow_plan)
       /\ last' = Reply(strip(content))
  /\ step_msgs' = <<NudgeMsg>>
  /\ tool_ids' = <<>>
  /\ auto_now' = {}
  /\ n_calls' = 0
  /\ ci' = 0
  /\ UNCHANGED <<pc, state, emitted, review_calls, review_reply, loopLocals, regVars>>

\* the reply carries n tool calls; their ids are 1..n in the order given
RequestTools ==
  /\ BeginRound
  /\ \E n \in 1..MaxCalls : n_calls' = n
  /\ ci' = 0
  /\ pc' = "calls"
  /\ step_msgs' = <<AssistantMsg>>
  /\ tool_ids' = <<>>
  /\ auto_now' = {}
  /\ phone' \in {phone, TRUE}
  /\ UNCHANGED <<state, emitted, review_calls, review_reply, loopNoPhone, regVars>>

\* the autopilot's notes in the plan: prepare_login is in_progress once the
\* phone number is filled in (on the browser path: once the fill was tried)
\* and completed once the code button is clicked
PlanAfterAutopilot(plan, pass) ==
  LET filled == IF (IF mobile_only THEN pass.filled /\ ~auto_filled_phone
                    ELSE pass.tried.fill)
                THEN update_step(plan, "prepare_login", "in_progress") ELSE plan
  IN IF pass.clicked /\ ~auto_clicked_code_btn
     THEN update_step(filled, "prepare_login", "completed") ELSE filled

\* the body of `for call in tool_calls` for the next call of the turn
DispatchCall ==
  /\ pc = "calls"
  /\ ci < n_calls
  /\ \E name \in MenuNames(menu) :
     \E arg_sid \in ArgSids(name), env \in EnvFor(name), encoded \in BOOLEAN :
       LET sid == InjectSessionId(name, arg_sid)
           gated == Gated(name)
           res == Dispatch(name, sid, env)
           browser_live == IF gated THEN browser_SESSIONS
                           ELSE BrowserSessionsAfter(name, sid, env)
           android_live == IF gated THEN android_SESSIONS
                           ELSE AndroidSessionsAfter(name, sid, env)
           created == ~gated /\ CreatesSession(name, sid, env)
           via == ReachesWorker(name, sid)
           browser_sid == IF ~res.raised /\ res.session_id # NoSid /\ IsBrowser(name)
                          THEN res.session_id ELSE active_browser_session_id
           android_sid == IF ~res.raised /\ res.session_id # NoSid /\ IsAndroid(name)
                          THEN res.session_id ELSE active_android_session_id
       IN
       /\ created => next_uuid <= MaxIds
       /\ gated => env = [out |-> "ok", flag |-> FALSE]
       /\ encoded => /\ name \in {"android_screenshot", "browser_screenshot"}
                     /\ IsTruthySuccess(res)
       /\ browser_SESSIONS' = browser_live
       /\ android_SESSIONS' = android_live
       /\ next_uuid' = IF created THEN next_uuid + 1 ELSE next_uuid
       /\ lost' = lost
       /\ destroyed' = IF ~gated /\ Destroys(name, res) THEN destroyed \cup {sid}
                       ELSE destroyed
       /\ last' = [name |-> name, sid |-> sid, res |-> res, via_worker |-> via,
                   reply |-> <<>>, opened |-> "none"]
       /\ IF res.raised
          THEN /\ LeaveChat("raised")
               /\ UNCHANGED <<state, emitted>>
          ELSE LET pass0 == Autopilot(name, res, android_sid, browser_sid, NoAuto) IN
               \E ae \in AutoEnvFor(pass0, name, android_sid, browser_sid,
                                    android_live, browser_live) :
               LET pass == Autopilot(name, res, android_sid, browser_sid, ae) IN
               /\ \A a \in Actions : ae[a] => pass.tried[a]
               /\ active_browser_session_id' = browser_sid
               /\ active_android_session_id' = android_sid
               /\ tool_ids' = append_tool_message(tool_ids, ci + 1)
               /\ step_msgs' = <<ToolMsg(ci + 1)>>
                                 \o (IF IsFailure(res) THEN <<CorrectiveMsg>> ELSE <<>>)
                                 \o GameMsgs(name, res)
                                 \o ImageMsgs(name, res, encoded)
                                 \o AutoMsgs(name, pass)
               /\ find_empty_streak' = StreakAfter(name, res)
               /\ is_game_ui' = GameAfter(name, res)
               /\ auto_filled_phone' = pass.filled
               /\ auto_checked_agreement' = pass.checked
               /\ auto_clicked_code_btn' = pass.clicked
               /\ tried' = tried \cup Attempted(pass)
               /\ auto_now' = Attempted(pass)
               /\ ci' = ci + 1
               /\ pc' = IF ci + 1 = n_calls THEN "round" ELSE "calls"
               /\ workflow_plan' = PlanAfterAutopilot(workflow_plan, pass)
               /\ UNCHANGED <<state, emitted, mobile_only, phone, menu, n_calls, round, probe>>
  /\ UNCHANGED <<review_calls, review_reply>>

\* ReviewState that takes any reply, empty or not, for a final answer
ReviewStateAnyReply(r) == IF r = "raise" THEN "failed" ELSE "completed"

\* the state chat() returns after the review call: r is what that call gave
ReviewState(r) == IF r = "text" THEN "completed" ELSE "failed"

\* the round budget is used up: the review state and its one call without tools
Review ==
  /\ pc = "round"
  /\ round = max_rounds
  /\ review_calls' = review_calls + 1
  /\ \E r \in {"text", "empty", "raise"} :
       /\ review_reply' = r
       /\ state' = ReviewState(r)
       /\ emitted' = emitted \o <<"review", ReviewState(r)>>
  /\ last' = NoCall
  /\ LeaveChat("done")
  /\ UNCHANGED regVars

NoProbe == [phase |-> "none"]

\* the program before the first chat()
InitLoop ==
  /\ pc = "idle"
  /\ state = "none"
  /\ emitted = <<>>
  /\ round = 0
  /\ review_calls = 0
  /\ review_reply = "none"
  /\ menu = "sessions"
  /\ mobile_only = FALSE
  /\ workflow_plan = EmptyPlan
  /\ phone = FALSE
  /\ active_browser_session_id = NoSid
  /\ active_android_session_id = NoSid
  /\ auto_filled_phone = FALSE
  /\ auto_checked_agreement = FALSE
  /\ auto_clicked_code_btn = FALSE
  /\ is_game_ui = FALSE
  /\ find_empty_streak = 0
  /\ n_calls = 0
  /\ ci = 0
  /\ tool_ids = <<>>
  /\ step_msgs = <<>>
  /\ last = NoCall
  /\ tried = {}
  /\ auto_now = {}

Init ==
  /\ InitLoop
  /\ browser_SESSIONS = {}
  /\ android_SESSIONS = {}
  /\ next_uuid = 1
  /\ destroyed = {}
  /\ lost = {}
  /\ probe = NoProbe

\* the worker process ends (killed, or the browser crashed it) and the sessions
\* of its _SESSIONS end with it.  _run_in_browser_process finds it dead at the
\* next call and starts a worker whose _SESSIONS is empty before it sends, so
\* the next request is served by that worker.
WorkerDies ==
  /\ browser_SESSIONS # {}
  /\ browser_SESSIONS' = {}
  /\ lost' = lost \cup browser_SESSIONS
  /\ UNCHANGED <<loopVars, android_SESSIONS, next_uuid, destroyed, probe>>

Next ==
  \/ StartChat
  \/ StartMobileChat
  \/ ReasoningRaises
  \/ ReplyNeedsInput
  \/ ReplyFinal
  \/ ReplyEmptyNudge
  \/ RequestTools
  \/ DispatchCall
  \/ Review
  \/ WorkerDies

Spec == Init /\ [][Next]_vars

\* a step of a chat() run that has started and not yet returned or raised
ChatStep ==
  /\ pc \in {"round", "calls"}
  /\ \/ ReasoningRaises
     \/ ReplyNeedsInput
     \/ ReplyFinal
     \/ ReplyEmptyNudge
     \/ RequestTools
     \/ DispatchCall
     \/ Review

\* the same program where every reasoning-service call and every tool call of
\* a run comes back (as a value or as an exception): chat() is one thread
\* that goes on as soon as its call does
\* the first chat() run of the process
FirstChat ==
  /\ pc = "idle"
  /\ \/ StartChat
     \/ StartMobileChat

NextFair ==
  \/ FirstChat
  \/ ChatStep
  \/ WorkerDies

SpecFair == Init /\ [][NextFair]_vars /\ WF_vars(ChatStep)

\* ====================================================================
\* android_tool.tap_coordinates on its own (SpecTap)
\* ====================================================================
\* The JSON values the reasoning service can put in x and y, by what Python
\* makes of them: an int n, the float n + 0.5, the string of an int, a string
\* that is no number, the float inf and the string "inf", nan, None, a list.
IntVals == -1..2

Scalars ==
  [tag : {"int"}, n : IntVals]
    \cup [tag : {"frac"}, n : {-1, 0, 1}]
    \cup [tag : {"str_int"}, n : {0, 2}]
    \cup [tag : {"str_bad", "inf", "str_inf", "nan", "none"}, n : {0}]

ListItems == {[tag |-> "int", n |-> 2], [tag |-> "int", n |-> 0],
              [tag |-> "str_bad", n |-> 0], [tag |-> "inf", n |-> 0]}

Lists ==
  {[tag |-> "list", items |-> <<>>]}
    \cup {[tag |-> "list", items |-> <<a>>] : a \in ListItems}
    \cup {[tag |-> "list", items |-> <<a, b>>] : a \in ListItems, b \in {[tag |-> "int", n |-> 2]}}

Coordinates == Scalars \cup Lists

Coerced(n) == [kind |-> "ok", n |-> n]
CoerceError(kind) == [kind |-> kind, n |-> 0]

\* int(float(str(val).strip())) for a value that is not a list
IntOfFloatOfStr(val) ==
  IF val.tag \in {"int", "str_int"} THEN Coerced(val.n)
  ELSE IF val.tag = "frac" THEN Coerced(IF val.n >= 0 THEN val.n ELSE val.n + 1)
  ELSE IF val.tag \in {"inf", "str_inf"} THEN CoerceError("OverflowError")
  ELSE CoerceError("ValueError")

\* android_tool._coerce_int
coerce_int(val) ==
  IF val.tag = "list"
  THEN (IF Len(val.items) = 0 THEN CoerceError("IndexError")
        ELSE IntOfFloatOfStr(val.items[1]))
  ELSE IntOfFloatOfStr(val)

\* what the device answers to a tap: the driver of the session, then adb
TapEnv ==
  {e \in [driver : {"none", "ok", "fail"}, adb : {"ok", "nonzero", "raise"}] :
     e.driver = "ok" => e.adb = "ok"}

\* the result of a device operation, with the interactions it had with the
\* device in their order: "driver" for the uiautomator2 driver, "adb" for a
\* shell command
TapResult(raised, success, error, log) ==
  [raised |-> raised, success |-> success, error |-> error, device_calls |-> Len(log),
   log |-> log]

Caught == {"ValueError", "TypeError", "IndexError"}

\* android_tool.tap_coordinates
tap_coordinates(session_id, x, y, env) ==
  LET cx == coerce_int(x)
      cy == coerce_int(y)
      driver_log == IF env.driver = "none" THEN <<>> ELSE <<"driver">>
  IN
  IF cx.kind \in Caught THEN TapResult(FALSE, "false", "invalid_coordinates", <<>>)
  ELSE IF cx.kind # "ok" THEN TapResult(TRUE, "absent", "none", <<>>)
  ELSE IF cy.kind \in Caught THEN TapResult(FALSE, "false", "invalid_coordinates", <<>>)
  ELSE IF cy.kind # "ok" THEN TapResult(TRUE, "absent", "none", <<>>)
  ELSE IF cx.n <= 0 \/ cy.n <= 0 THEN TapResult(FALSE, "false", "invalid_coordinates", <<>>)
  ELSE IF session_id \notin android_SESSIONS
       THEN TapResult(FALSE, "false", "session_not_found", <<>>)
  ELSE IF env.driver = "ok" THEN TapResult(FALSE, "true", "none", <<"driver">>)
  ELSE IF env.adb = "ok" THEN TapResult(FALSE, "true", "none", driver_log \o <<"adb">>)
  ELSE IF env.adb = "nonzero"
       THEN TapResult(FALSE, "false", "adb_error", driver_log \o <<"adb">>)
  ELSE TapResult(FALSE, "false", "tap_failed", driver_log \o <<"adb">>)

\* tap_coordinates is called with a session id that may or may not be registered
InitTap ==
  /\ InitLoop
  /\ browser_SESSIONS = {}
  /\ android_SESSIONS \in {{}, {1}}
  /\ next_uuid = IF android_SESSIONS = {} THEN 1 ELSE 2
  /\ destroyed = {}
  /\ lost = {}
  /\ \E x \in Coordinates, y \in Coordinates, env \in TapEnv :
       probe = [phase |-> "tap_in", session_id |-> 1, x |-> x, y |-> y, env |-> env]

Tap ==
  /\ probe.phase = "tap_in"
  /\ probe' = [phase |-> "tap_out", session_id |-> probe.session_id,
               x |-> probe.x, y |-> probe.y, env |-> probe.env,
               out |-> tap_coordinates(probe.session_id, probe.x, probe.y, probe.env)]
  /\ UNCHANGED <<loopVars, regVars>>

NextTap == Tap

SpecTap == InitTap /\ [][NextTap]_vars

\* ====================================================================
\* the loop's decisions on one ToolResult (SpecDec)
\* ====================================================================
\* `not (result.get("success") is False)`: the success flag of a step event
StepSuccess(res) == ~IsFailure(res)

\* the autopilot: `auto_filled_phone = bool(ir.get("success"))`
AutoFlag(res) == IsTruthySuccess(res)

AllAuto == [fill |-> TRUE, agree |-> TRUE, code |-> TRUE]

\* every decision chat() takes on the ToolResult of a call of this name
Decisions(name, res) ==
  [corrective |-> IsFailure(res),
   step_success |-> StepSuccess(res),
   boot |-> (name \in {"android_list_devices", "android_start"} /\ BootProceeds(res)),
   game |-> GameAfter(name, res),
   image |-> (ImageMsgs(name, res, TRUE) # <<>>),
   autopilot |-> Attempted(Autopilot(name, res, active_android_session_id,
                                     active_browser_session_id, AllAuto)),
   auto_flag |-> (name = "android_input_text" /\ AutoFlag(res))]

DecNames ==
  {"android_list_devices", "android_start", "android_dump_ui", "android_find_elements",
   "android_screenshot", "browser_screenshot", "browser_get_visible_inputs",
   "android_input_text"}

\* the ToolResults of the wire shape a call of this name can hand to the loop:
\* success true, false or absent, and the datum of the result the loop reads
WireResults(name) ==
  {[NoResult EXCEPT
      !.success = sc,
      !.error = IF sc = "false" THEN "adb_error" ELSE "none",
      !.small = (name = "android_dump_ui" /\ datum),
      !.found = IF name = "android_find_elements" /\ datum THEN 1 ELSE 0,
      !.screenshot = (name \in {"android_screenshot", "browser_screenshot"} /\ datum),
      !.phone_input = (name = "browser_get_visible_inputs" /\ datum)]
   : sc \in {"true", "false", "absent"}, datum \in BOOLEAN}

\* chat() in its second round, holding its session, about to handle a result
InitDec ==
  /\ pc = "calls"
  /\ state = "executing"
  /\ emitted = <<"planning", "executing">>
  /\ round = 2
  /\ review_calls = 0
  /\ review_reply = "none"
  /\ menu = "screen"
  /\ mobile_only \in BOOLEAN
  /\ workflow_plan = IF mobile_only THEN update_step(create_plan, "open_xhs", "completed")
                     ELSE EmptyPlan
  /\ phone = TRUE
  /\ active_browser_session_id = IF mobile_only THEN NoSid ELSE 1
  /\ active_android_session_id = IF mobile_only THEN 1 ELSE NoSid
  /\ auto_filled_phone = FALSE
  /\ auto_checked_agreement = FALSE
  /\ auto_clicked_code_btn = FALSE
  /\ is_game_ui = FALSE
  /\ find_empty_streak \in {0, 1}
  /\ n_calls = 1
  /\ ci = 0
  /\ tool_ids = <<>>
  /\ step_msgs = <<AssistantMsg>>
  /\ last = NoCall
  /\ tried = {}
  /\ auto_now = {}
  /\ browser_SESSIONS = IF mobile_only THEN {} ELSE {1}
  /\ android_SESSIONS = IF mobile_only THEN {1} ELSE {}
  /\ next_uuid = 2
  /\ destroyed = {}
  /\ lost = {}
  /\ \E name \in DecNames : \E res \in WireResults(name) :
       probe = [phase |-> "dec_in", name |-> name, res |-> res]

Decide ==
  /\ probe.phase = "dec_in"
  /\ probe' = [phase |-> "dec_out", name |-> probe.name, res |-> probe.res,
               out |-> Decisions(probe.name, probe.res)]
  /\ UNCHANGED <<loopVars, regVars>>

NextDec == Decide

SpecDec == InitDec /\ [][NextDec]_vars

\* ====================================================================
\* the observer hooks around one tool step (SpecHook)
\* ====================================================================
\* the calls one run makes, at most
MaxSteps == 2

\* what a hook the caller passed does when called; "absent" is `None`
HookModes == {"absent", "returns", "raises"}
Hooks == [on_step_start : HookModes, on_step_end : HookModes, on_event : HookModes]
NoHooks == [on_step_start |-> "absent", on_step_end |-> "absent", on_event |-> "absent"]

\* how the answer to one call comes about: execute_skill returns a success or
\* a failure, the policy gate answers, or execute_skill raises
StepKinds == {"ok", "fail", "gated", "raise"}
StepRuns == UNION {[1..n -> StepKinds] : n \in 1..MaxSteps}

\* a hook call that lets the exception of the hook through
HookCallPropagates(mode) == IF mode = "raises" THEN "propagates" ELSE "continues"

\* `try: hook(...) except Exception: pass`
HookCall(mode) == "continues"

\* a run of steps: where it stands, step_index[0], the results appended to the
\* trace, and log, the calls made to the hooks in order
FirstStep == [at |-> "start", step_index |-> 0, trace |-> <<>>, log |-> <<>>]

\* `if hook: try: hook(...)`: the call is made when a hook was passed
Notified(r, mode, what) ==
  IF mode = "absent" THEN r.log ELSE Append(r.log, <<what, r.step_index>>)

AfterHook(r, mode, what, to) ==
  [r EXCEPT !.log = Notified(r, mode, what),
            !.at = IF mode # "absent" /\ HookCall(mode) = "propagates"
                   THEN "raised" ELSE to]

\* `if on_step_start: ... on_step_start(step_index[0], name, args)`
on_step_start(r, h) == AfterHook(r, h.on_step_start, "start", "exec")

\* the gate or `result = execute_skill(self.skill_ctx, name, args)`
RunTool(r, kind) ==
  IF kind = "raise" THEN [r EXCEPT !.at = "raised"] ELSE [r EXCEPT !.at = "end"]

\* `if on_step_end: ... on_step_end(step_index[0], name, result)`, then
\* `step_index[0] += 1` and the trace entry of the result
on_step_end(r, h, kind) ==
  LET n == AfterHook(r, h.on_step_end, "end", "emit") IN
  IF n.at = "raised" THEN n
  ELSE [n EXCEPT !.step_index = r.step_index + 1, !.trace = Append(r.trace, kind)]

\* emit("step", ...) / emit("decision_summary", ...): on_event in try/except
emit(r, h, n_steps) ==
  AfterHook(r, h.on_event, "event", IF r.step_index = n_steps THEN "ret" ELSE "start")

\* the next statement of the step, whichever it is
Advance(r, h, run) ==
  IF r.at = "start" THEN on_step_start(r, h)
  ELSE IF r.at = "exec" THEN RunTool(r, run[r.step_index + 1])
  ELSE IF r.at = "end" THEN on_step_end(r, h, run[r.step_index + 1])
  ELSE IF r.at = "emit" THEN emit(r, h, Len(run))
  ELSE r

\* two runs over the same calls: `with` has the hooks the caller passed,
\* `without` has none
InitHook ==
  /\ InitLoop
  /\ browser_SESSIONS = {}
  /\ android_SESSIONS = {}
  /\ next_uuid = 1
  /\ destroyed = {}
  /\ lost = {}
  /\ \E h \in Hooks, run \in StepRuns :
       probe = [phase |-> "hook", hooks |-> h, run |-> run,
                with |-> FirstStep, without |-> FirstStep]

BothAdvance(at) ==
  /\ probe.phase = "hook"
  /\ probe.with.at = at
  /\ probe' = [probe EXCEPT !.with = Advance(probe.with, probe.hooks, probe.run),
                            !.without = Advance(probe.without, NoHooks, probe.run)]
  /\ UNCHANGED <<loopVars, regVars>>

StepStart == BothAdvance("start")
StepRun == BothAdvance("exec")
StepEnd == BothAdvance("end")
StepEvent == BothAdvance("emit")

NextHook ==
  \/ StepStart
  \/ StepRun
  \/ StepEnd
  \/ StepEvent

SpecHook == InitHook /\ [][NextHook]_vars


\* ====================================================================
\* the browser worker process and its two queues (SpecWorker)
\* ====================================================================
\* the requests put on the request queue, at most
MaxReqs == 3

\* browser_tool._DISPATCH: the operations the worker knows
DISPATCH ==
  {"start_session", "close_session", "open_url", "fill_selector", "click_selector",
   "get_visible_inputs", "fill_by_placeholder", "click_by_text", "check_agreement",
   "get_text", "get_page_source", "screenshot"}

\* `None` on the request queue
Sentinel == [op |-> "None", raises |-> FALSE]

\* `task` before the first get
NoTask == [op |-> "none", raises |-> FALSE]

\* what is put on the request queue: (op, args, kwargs) with an operation of
\* the table or not, whose implementation returns or raises; or the sentinel
Requests ==
  [op : {"start_session", "get_text", "no_such_op"}, raises : BOOLEAN] \cup {Sentinel}
RequestRuns == UNION {[1..n -> Requests] : n \in 1..MaxReqs}

\* a worker that answers nothing when the operation fails
RespondOnlyOnReturn(task) ==
  IF task.op \in DISPATCH /\ ~task.raises THEN <<[ok |-> TRUE, value |-> "out"]>> ELSE <<>>

\* _browser_worker_process: what the body of the loop puts on the response
\* queue for one task.  `_DISPATCH[op]` is inside the try, so an unknown
\* operation is a KeyError answered like any exception of an implementation.
Respond(task) ==
  IF task.op \notin DISPATCH THEN <<[ok |-> FALSE, value |-> "KeyError"]>>
  ELSE IF task.raises THEN <<[ok |-> FALSE, value |-> "error"]>>
  ELSE <<[ok |-> TRUE, value |-> "out"]>>

InitWorker ==
  /\ InitLoop
  /\ browser_SESSIONS = {}
  /\ android_SESSIONS = {}
  /\ next_uuid = 1
  /\ destroyed = {}
  /\ lost = {}
  /\ \E run \in RequestRuns :
       probe = [phase |-> "worker", to_send |-> run, req_q |-> <<>>, res_q |-> <<>>,
                at |-> "get", task |-> NoTask, taken |-> <<>>]

\* `_REQ_Q.put(...)`: one more request is on the queue
Put ==
  /\ probe.phase = "worker"
  /\ probe.to_send # <<>>
  /\ probe' = [probe EXCEPT !.to_send = Tail(probe.to_send),
                            !.req_q = Append(probe.req_q, Head(probe.to_send))]
  /\ UNCHANGED <<loopVars, regVars>>

\* `task = req_q.get()`; `if task is None: break`
WorkerGet ==
  /\ probe.phase = "worker"
  /\ probe.at = "get"
  /\ probe.req_q # <<>>
  /\ LET task == Head(probe.req_q) IN
     probe' = [probe EXCEPT !.req_q = Tail(probe.req_q),
                            !.task = task,
                            !.at = IF task = Sentinel THEN "stopped" ELSE "run",
                            !.taken = IF task = Sentinel THEN probe.taken
                                      ELSE Append(probe.taken, task)]
  /\ UNCHANGED <<loopVars, regVars>>

\* the try block of the loop: the operation, and the put on the response queue
WorkerRun ==
  /\ probe.phase = "worker"
  /\ probe.at = "run"
  /\ probe' = [probe EXCEPT !.res_q = probe.res_q \o Respond(probe.task),
                            !.at = "get"]
  /\ UNCHANGED <<loopVars, regVars>>

NextWorker ==
  \/ Put
  \/ WorkerGet
  \/ WorkerRun

SpecWorker == InitWorker /\ [][NextWorker]_vars


\* ====================================================================
\* the plan made for a publish request (SpecPlan)
\* ====================================================================
\* the maximal runs of one character class a message is made of, at most
MaxRuns == 3

\* `\d{10}`: the digits that follow the leading 1
MoreDigits == 10

\* `1\d{10}`: the digits of a phone number
PhoneLen == 1 + MoreDigits

\* A message, reduced to what `\b1\d{10}\b` can tell apart: its maximal runs
\* of digits (how many, and whether the first is a 1), of other word
\* characters (letters, CJK characters, underscore) and of non-word characters
DigitRuns == [kind : {"digits"}, len : {PhoneLen - 1, PhoneLen, PhoneLen + 1}, one : BOOLEAN]
TextRuns == DigitRuns \cup {[kind |-> "word", len |-> 1, one |-> FALSE],
                            [kind |-> "other", len |-> 1, one |-> FALSE]}
Messages ==
  {m \in UNION {[1..n -> TextRuns] : n \in 0..MaxRuns} :
     \A k \in DOMAIN m : k > 1 => m[k].kind # m[k - 1].kind}

\* `m.group(0) if m else None`, as the place of the match
NoMatch == 0

\* workflows.xhs_publish.extract_phone: re.search(r"\b1\d{10}\b", text).  \b
\* holds only between a word and a non-word character (or at an end of the
\* text), so the match is a whole digit run with no word character next to it.
extract_phone(text) ==
  LET hits == {k \in DOMAIN text :
                 /\ text[k].kind = "digits"
                 /\ text[k].one
                 /\ text[k].len = PhoneLen
                 /\ (k = 1 \/ text[k - 1].kind = "other")
                 /\ (k = Len(text) \/ text[k + 1].kind = "other")}
  IN IF hits = {} THEN NoMatch ELSE CHOOSE k \in hits : \A j \in hits : k <= j

\* required_inputs that asks for the phone number whatever the message holds
required_inputsAlwaysPhone(found) == <<"phone", "sms_code">>

\* create_plan: `if not phone: required_inputs.append("phone")`, then sms_code
required_inputs(found) ==
  (IF found = NoMatch THEN <<"phone">> ELSE <<>>) \o <<"sms_code">>

\* workflows.xhs_publish.create_plan(user_message): the keys chat() reads
create_plan_of(user_message) ==
  LET phone_found == extract_phone(user_message) IN
  [steps |-> create_plan,
   phone |-> phone_found,
   required_inputs |-> required_inputs(phone_found)]

InitPlan ==
  /\ InitLoop
  /\ browser_SESSIONS = {}
  /\ android_SESSIONS = {}
  /\ next_uuid = 1
  /\ destroyed = {}
  /\ lost = {}
  /\ \E m \in Messages : probe = [phase |-> "plan_in", user_message |-> m]

MakePlan ==
  /\ probe.phase = "plan_in"
  /\ probe' = [phase |-> "plan_out", user_message |-> probe.user_message,
               plan |-> create_plan_of(probe.user_message)]
  /\ UNCHANGED <<loopVars, regVars>>

NextPlan == MakePlan

SpecPlan == InitPlan /\ [][NextPlan]_vars


\* ====================================================================
\* the publish intent and the one place where the plan is made (SpecIntent)
\* ====================================================================
\* the words of a user message, at most
MaxTokens == 3

\* detect_xhs_publish_intent: keys, the Chinese ones written in pinyin
IntentKeys == {"xiaohongshu", "xhs", "fabu", "tiezi", "biji"}

\* a user message as its words: keywords, one of them in capitals, and a
\* word that is no keyword
Tokens == IntentKeys \cup {"XHS", "tianqi"}
UserMessages == UNION {[1..n -> Tokens] : n \in 0..MaxTokens}

\* str.lower() on one word
lower(w) == IF w = "XHS" THEN "xhs" ELSE w

\* detection that counts the keywords of the message as typed
detect_xhs_publish_intentCased(text) ==
  Cardinality({k \in IntentKeys : \E i \in DOMAIN text : text[i] = k}) >= 2

\* workflows.xhs_publish.detect_xhs_publish_intent: `hit >= 2` over the keys
\* that occur in `(text or "").lower()`
detect_xhs_publish_intent(text) ==
  Cardinality({k \in IntentKeys : \E i \in DOMAIN text : lower(text[i]) = k}) >= 2

InitIntent ==
  /\ InitLoop
  /\ browser_SESSIONS = {}
  /\ android_SESSIONS = {}
  /\ next_uuid = 1
  /\ destroyed = {}
  /\ lost = {}
  /\ \E m \in UserMessages :
       probe = [phase |-> "planning", user_message |-> m, plan_calls |-> 0,
                mobile_only |-> FALSE, reasoning_calls |-> 0]

\* chat(): state planning; `if detect_xhs_publish_intent(user_message):
\* workflow_plan = create_xhs_plan(user_message); mobile_only = True`
Planning ==
  /\ probe.phase = "planning"
  /\ LET hit == detect_xhs_publish_intent(probe.user_message) IN
     probe' = [probe EXCEPT !.phase = "executing",
                            !.plan_calls = IF hit THEN probe.plan_calls + 1
                                           ELSE probe.plan_calls,
                            !.mobile_only = hit]
  /\ UNCHANGED <<loopVars, regVars>>

\* chat(): one reasoning-service call of the loop, or the review call; no
\* statement after state planning calls create_xhs_plan
ReasoningCall ==
  /\ probe.phase = "executing"
  /\ probe.reasoning_calls <= max_rounds
  /\ probe' = [probe EXCEPT !.reasoning_calls = probe.reasoning_calls + 1]
  /\ UNCHANGED <<loopVars, regVars>>

NextIntent ==
  \/ Planning
  \/ ReasoningCall

SpecIntent == InitIntent /\ [][NextIntent]_vars


\* ====================================================================
\* the skill catalog and the dispatcher's table (SpecCatalog)
\* ====================================================================
\* skills.get_skill_specs: the names of the catalog
get_skill_specs ==
  {"generate_novel_illustrations", "browser_start", "browser_open", "browser_fill",
   "browser_click", "browser_get_text", "browser_get_page_source", "browser_screenshot",
   "browser_close", "browser_get_visible_inputs", "browser_fill_by_placeholder",
   "browser_click_by_text", "browser_check_agreement", "android_list_devices",
   "android_start", "android_stop", "android_open_app", "android_tap_text",
   "android_tap_coordinates", "android_tap_percent", "android_tap_resource_id",
   "android_tap_content_desc", "android_swipe", "android_find_elements",
   "android_input_text", "android_press_key", "android_dump_ui", "android_screenshot",
   "android_wait", "android_get_screen_size", "web_search", "generate_image_from_text"}

\* skills.execute_skill: the names of its `if name == ...` branches
DispatchNames ==
  {"generate_novel_illustrations", "generate_image_from_text", "web_search",
   "browser_start", "browser_open", "browser_fill", "browser_click", "browser_get_text",
   "browser_get_page_source", "browser_screenshot", "browser_close",
   "browser_get_visible_inputs", "browser_fill_by_placeholder", "browser_click_by_text",
   "browser_check_agreement", "android_list_devices", "android_start", "android_stop",
   "android_open_app", "android_tap_text", "android_tap_coordinates",
   "android_tap_percent", "android_tap_resource_id", "android_tap_content_desc",
   "android_swipe", "android_find_elements", "android_input_text", "android_press_key",
   "android_dump_ui", "android_screenshot", "android_wait", "android_get_screen_size"}

\* `from src.android_tool import (...)`: the function of android_tool that
\* each android skill calls
android_imports ==
  [android_list_devices |-> "list_devices", android_start |-> "start_session",
   android_stop |-> "stop_session", android_open_app |-> "open_app",
   android_tap_text |-> "tap_text", android_tap_coordinates |-> "tap_coordinates",
   android_tap_percent |-> "tap_percent", android_tap_resource_id |-> "tap_resource_id",
   android_tap_content_desc |-> "tap_content_desc", android_swipe |-> "swipe",
   android_find_elements |-> "find_elements", android_input_text |-> "input_text",
   android_press_key |-> "press_key", android_dump_ui |-> "dump_ui",
   android_screenshot |-> "screenshot", android_wait |-> "wait",
   android_get_screen_size |-> "get_screen_size"]

\* the functions android_tool.py defines
android_tool_defs ==
  {"list_devices", "start_session", "stop_session", "open_app", "wait", "tap_text",
   "input_text", "press_key", "dump_ui", "tap_coordinates", "tap_resource_id",
   "tap_content_desc", "swipe", "find_elements", "get_screen_size", "screenshot"}

\* the name has a branch in execute_skill whose skill function reaches a
\* function that exists
Implemented(name) ==
  /\ name \in DispatchNames
  /\ name \in DOMAIN android_imports => android_imports[name] \in android_tool_defs

\* how the arguments of a call fit the parameters of the skill function
ArgFits == {"binds", "missing_key", "extra_key"}

\* what asking the dispatcher for a name comes to
Resolve(name, fit) ==
  IF name \notin DispatchNames THEN "unknown_skill"
  ELSE IF ~Implemented(name) THEN "ImportError"
  ELSE IF fit # "binds" THEN "TypeError"
  ELSE "called"

InitCatalog ==
  /\ InitLoop
  /\ browser_SESSIONS = {}
  /\ android_SESSIONS = {}
  /\ next_uuid = 1
  /\ destroyed = {}
  /\ lost = {}
  /\ \E name \in get_skill_specs \cup DispatchNames \cup {"no_such_skill"},
        fit \in ArgFits :
       probe = [phase |-> "skill_in", name |-> name, fit |-> fit]

\* the reasoning service picks a name; execute_skill(ctx, name, arguments)
ResolveSkill ==
  /\ probe.phase = "skill_in"
  /\ probe' = [phase |-> "skill_out", name |-> probe.name, fit |-> probe.fit,
               in_catalog |-> (probe.name \in get_skill_specs),
               outcome |-> Resolve(probe.name, probe.fit)]
  /\ UNCHANGED <<loopVars, regVars>>

NextCatalog == ResolveSkill

SpecCatalog == InitCatalog /\ [][NextCatalog]_vars


\* ====================================================================
\* session injection on one requested call (SpecInject)
\* ====================================================================
\* chat() about to handle a requested call, with every combination of active
\* sessions a run can have reached: none, a browser session, a device
\* session, or both (their ids differ: each is a fresh uuid4)
InitInject ==
  /\ pc = "calls"
  /\ state = "executing"
  /\ emitted = <<"planning", "executing">>
  /\ round = 1
  /\ review_calls = 0
  /\ review_reply = "none"
  /\ menu = "sessions"
  /\ mobile_only = FALSE
  /\ workflow_plan = EmptyPlan
  /\ phone = FALSE
  /\ active_browser_session_id \in {NoSid} \cup Ids
  /\ active_android_session_id \in ({NoSid} \cup Ids) \ (Ids \cap {active_browser_session_id})
  /\ auto_filled_phone = FALSE
  /\ auto_checked_agreement = FALSE
  /\ auto_clicked_code_btn = FALSE
  /\ is_game_ui = FALSE
  /\ find_empty_streak = 0
  /\ n_calls = 1
  /\ ci = 0
  /\ tool_ids = <<>>
  /\ step_msgs = <<AssistantMsg>>
  /\ last = NoCall
  /\ tried = {}
  /\ auto_now = {}
  /\ browser_SESSIONS = Ids \cap {active_browser_session_id}
  /\ android_SESSIONS = Ids \cap {active_android_session_id}
  /\ next_uuid = 1 + Cardinality(browser_SESSIONS \cup android_SESSIONS)
  /\ destroyed = {}
  /\ lost = {}
  /\ \E name \in Names, arg_sid \in {NoSid} \cup Ids :
       probe = [phase |-> "inject_in", name |-> name, arg_sid |-> arg_sid]

\* chat(): the two `if ... "session_id" not in args ...` statements
Inject ==
  /\ probe.phase = "inject_in"
  /\ probe' = [phase |-> "inject_out", name |-> probe.name, arg_sid |-> probe.arg_sid,
               session_id |-> InjectSessionId(probe.name, probe.arg_sid)]
  /\ UNCHANGED <<loopVars, regVars>>

NextInject == Inject

SpecInject == InitInject /\ [][NextInject]_vars


\* ====================================================================
\* _run_in_browser_process and the worker it talks to (SpecSupervisor,
\* SpecCallers)
\* ====================================================================
\* the browser operations one caller invokes, at most
MaxOps == 2

\* the threads of the supervisor process that may call browser operations
Callers == {1, 2}

\* the worker processes (each with its pair of queues) that can ever be
\* started: one per invocation at most
Procs == 1..(Cardinality(Callers) * MaxOps)

\* `_PROC is None`, and `_REQ_Q`, `_RES_Q` before the first start
NoProc == 0

\* nothing received yet
NoResponse == [ok |-> FALSE, value |-> "none", from |-> 0, n |-> 0]

\* what a caller asks for: an operation that returns or one that raises
Operations == [op : {"open_url"}, raises : BOOLEAN]

\* `if _PROC is None or not _PROC.is_alive()`
MustStart(sup) == sup.PROC = NoProc \/ sup.PROC \notin sup.alive

\* the module globals before any call, for the threads in `callers`
InitGlobals(callers) ==
  [phase |-> "supervisor",
   at |-> [c \in callers |-> "idle"],
   left |-> [c \in callers |-> MaxOps],
   task |-> [c \in callers |-> NoTask],
   waits_on |-> [c \in callers |-> NoProc],
   got |-> [c \in callers |-> NoResponse],
   PROC |-> NoProc, REQ_Q |-> NoProc, RES_Q |-> NoProc,
   started |-> 0, alive |-> {},
   req_q |-> [g \in Procs |-> <<>>],
   res_q |-> [g \in Procs |-> <<>>],
   worker |-> [g \in Procs |-> [at |-> "get", task |-> NoTask]]]

InitRegs ==
  /\ InitLoop
  /\ browser_SESSIONS = {}
  /\ android_SESSIONS = {}
  /\ next_uuid = 1
  /\ destroyed = {}
  /\ lost = {}

\* a thread enters _run_in_browser_process and evaluates the liveness test
RunCheck(c) ==
  /\ probe.at[c] = "idle"
  /\ probe.left[c] > 0
  /\ \E o \in Operations :
       probe' = [probe EXCEPT
                   !.at[c] = IF MustStart(probe) THEN "start" ELSE "put",
                   !.left[c] = @ - 1,
                   !.got[c] = NoResponse,
                   !.task[c] = [op |-> o.op, raises |-> o.raises, from |-> c,
                                n |-> probe.left[c]]]
  /\ UNCHANGED <<loopVars, regVars>>

\* the body of the `if`: two new queues, a new process, `_PROC.start()`
RunStart(c) ==
  /\ probe.at[c] = "start"
  /\ LET g == probe.started + 1 IN
     probe' = [probe EXCEPT !.at[c] = "put", !.PROC = g, !.REQ_Q = g, !.RES_Q = g,
                            !.started = g, !.alive = @ \cup {g}]
  /\ UNCHANGED <<loopVars, regVars>>

\* `_REQ_Q.put((op, call_args, call_kwargs))`
RunPut(c) ==
  /\ probe.at[c] = "put"
  /\ probe' = [probe EXCEPT !.at[c] = "get",
                            !.req_q[probe.REQ_Q] = Append(@, probe.task[c])]
  /\ UNCHANGED <<loopVars, regVars>>

\* `_RES_Q.get()` is entered: the thread now waits on the queue that the
\* global names at this moment
RunGet(c) ==
  /\ probe.at[c] = "get"
  /\ probe' = [probe EXCEPT !.at[c] = "blocked", !.waits_on[c] = probe.RES_Q]
  /\ UNCHANGED <<loopVars, regVars>>

\* `ok, value = _RES_Q.get()` comes back; the value is returned or raised
RunReceive(c) ==
  /\ probe.at[c] = "blocked"
  /\ probe.res_q[probe.waits_on[c]] # <<>>
  /\ probe' = [probe EXCEPT !.at[c] = "idle",
                            !.got[c] = Head(probe.res_q[probe.waits_on[c]]),
                            !.res_q[probe.waits_on[c]] = Tail(@)]
  /\ UNCHANGED <<loopVars, regVars>>

\* _browser_worker_process of worker g: `task = req_q.get()`
ProcGet(g) ==
  /\ g \in probe.alive
  /\ probe.worker[g].at = "get"
  /\ probe.req_q[g] # <<>>
  /\ probe' = [probe EXCEPT !.worker[g] = [at |-> "run", task |-> Head(probe.req_q[g])],
                            !.req_q[g] = Tail(@)]
  /\ UNCHANGED <<loopVars, regVars>>

\* _browser_worker_process of worker g: the try block and its put
ProcRun(g) ==
  /\ g \in probe.alive
  /\ probe.worker[g].at = "run"
  /\ LET task == probe.worker[g].task
         r == Respond(task)[1]
     IN probe' = [probe EXCEPT
                    !.worker[g].at = "get",
                    !.res_q[g] = Append(@, [ok |-> r.ok, value |-> r.value,
                                            from |-> task.from, n |-> task.n])]
  /\ UNCHANGED <<loopVars, regVars>>

\* the operating system ends worker g (a kill, a crash of the interpreter):
\* whatever it was doing is not finished
ProcDies(g) ==
  /\ g \in probe.alive
  /\ probe' = [probe EXCEPT !.alive = @ \ {g}]
  /\ UNCHANGED <<loopVars, regVars>>

CallerStep(c) ==
  \/ RunCheck(c)
  \/ RunStart(c)
  \/ RunPut(c)
  \/ RunGet(c)
  \/ RunReceive(c)

ProcStep(g) ==
  \/ ProcGet(g)
  \/ ProcRun(g)

\* one thread calls browser operations one after the other, as chat() does;
\* the worker may die at any time
InitSupervisor ==
  /\ InitRegs
  /\ probe = InitGlobals({1})

NextSupervisor ==
  \/ CallerStep(1)
  \/ \E g \in Procs : ProcStep(g)
  \/ \E g \in Procs : ProcDies(g)

\* the calling thread and every live worker go on when they can; nothing
\* obliges a worker to die
SpecSupervisor ==
  /\ InitSupervisor
  /\ [][NextSupervisor]_vars
  /\ WF_vars(CallerStep(1))
  /\ \A g \in Procs : WF_vars(ProcStep(g))

\* two threads of the supervisor process call browser operations; no worker
\* dies
InitCallers ==
  /\ InitRegs
  /\ probe = InitGlobals(Callers)

NextCallers ==
  \/ \E c \in Callers : CallerStep(c)
  \/ \E g \in Procs : ProcStep(g)

SpecCallers == InitCallers /\ [][NextCallers]_vars


\* ====================================================================
\* android_tool: the device registry and the operations on a session
\* (SpecDevice)
\* ====================================================================
\* operations that have an adb command to fall back on, besides tap_coordinates
ShellBacked == {"open_app", "input_text", "dump_ui", "swipe", "screenshot"}

\* operations that exist with the uiautomator2 driver only
DriverOnly == {"tap_text", "tap_resource_id", "tap_content_desc", "find_elements"}

\* what the device answers to one operation: the driver call works or raises,
\* the adb command works, exits nonzero or raises, the element looked for is
\* on the screen or not; valid: the arguments pass the operation's own test
\* (swipe: a known direction, find_elements: at least one criterion)
DeviceEnv ==
  [driver : {"ok", "raise"}, adb : {"ok", "nonzero", "raise"}, found : BOOLEAN,
   valid : BOOLEAN]

\* the error of the last `except Exception as e` of each operation
FailedError(name) ==
  IF name = "open_app" THEN "open_app_failed"
  ELSE IF name = "input_text" THEN "input_failed"
  ELSE IF name = "dump_ui" THEN "dump_failed"
  ELSE IF name = "swipe" THEN "swipe_failed"
  ELSE "screenshot_failed"

\* operations that give up when the driver raises
shell_backed_opNoFallback(name, session_id, attached, env) ==
  IF session_id \notin android_SESSIONS
  THEN TapResult(FALSE, "false", "session_not_found", <<>>)
  ELSE IF name = "swipe" /\ ~env.valid
  THEN TapResult(FALSE, "false", "invalid_direction", <<>>)
  ELSE IF attached
  THEN (IF env.driver = "ok" THEN TapResult(FALSE, "true", "none", <<"driver">>)
        ELSE TapResult(FALSE, "false", FailedError(name), <<"driver">>))
  ELSE IF env.adb = "ok" THEN TapResult(FALSE, "true", "none", <<"adb">>)
  ELSE IF env.adb = "nonzero" THEN TapResult(FALSE, "false", "adb_error", <<"adb">>)
  ELSE TapResult(FALSE, "false", FailedError(name), <<"adb">>)

\* android_tool.open_app, input_text, dump_ui, swipe, screenshot: the driver
\* of the session if it has one, then the adb command
shell_backed_op(name, session_id, attached, env) ==
  LET driver_log == IF attached THEN <<"driver">> ELSE <<>> IN
  IF session_id \notin android_SESSIONS
  THEN TapResult(FALSE, "false", "session_not_found", <<>>)
  ELSE IF name = "swipe" /\ ~env.valid
  THEN TapResult(FALSE, "false", "invalid_direction", <<>>)
  ELSE IF attached /\ env.driver = "ok" THEN TapResult(FALSE, "true", "none", <<"driver">>)
  ELSE IF env.adb = "ok" THEN TapResult(FALSE, "true", "none", driver_log \o <<"adb">>)
  ELSE IF env.adb = "nonzero"
       THEN TapResult(FALSE, "false", "adb_error", driver_log \o <<"adb">>)
  ELSE TapResult(FALSE, "false", FailedError(name), driver_log \o <<"adb">>)

\* android_tool.tap_text, tap_resource_id, tap_content_desc, find_elements
driver_only_op(name, session_id, attached, env) ==
  IF session_id \notin android_SESSIONS
  THEN TapResult(FALSE, "false", "session_not_found", <<>>)
  ELSE IF ~attached THEN TapResult(FALSE, "false", "uiautomator2_required", <<>>)
  ELSE IF env.driver = "raise"
       THEN TapResult(FALSE, "false",
                      IF name = "find_elements" THEN "find_failed" ELSE "tap_failed",
                      <<"driver">>)
  ELSE IF name = "find_elements" /\ ~env.valid
       THEN TapResult(FALSE, "false", "no_criteria", <<>>)
  ELSE IF env.found \/ name = "find_elements"
       THEN TapResult(FALSE, "true", "none", <<"driver">>)
  ELSE TapResult(FALSE, "false", "element_not_found", <<"driver">>)

\* the coordinates tried on a session: a valid pair and one that overflows
DeviceTaps == {[tag |-> "int", n |-> 2], [tag |-> "inf", n |-> 0]}

\* one operation of android_tool on session_id
device_op(name, session_id, x, attached, env) ==
  IF name = "tap_coordinates"
  THEN tap_coordinates(session_id, x, [tag |-> "int", n |-> 2],
                       [driver |-> IF ~attached THEN "none"
                                   ELSE IF env.driver = "ok" THEN "ok" ELSE "fail",
                        adb |-> IF attached /\ env.driver = "ok" THEN "ok" ELSE env.adb])
  ELSE IF name \in ShellBacked THEN shell_backed_op(name, session_id, attached, env)
  ELSE driver_only_op(name, session_id, attached, env)

NoDeviceOp ==
  [name |-> "none", session_id |-> NoSid, live |-> FALSE, attached |-> FALSE,
   valid |-> FALSE, driver |-> "ok", out |-> TapResult(FALSE, "absent", "none", <<>>)]

\* the module after import: no session
InitDevice ==
  /\ InitRegs
  /\ probe = [phase |-> "device", driver |-> [i \in Ids |-> FALSE], started |-> {},
              stopped |-> {}, op |-> NoDeviceOp]

\* android_tool.start_session: the devices are listed, the driver is
\* connected if it can be, and the session is registered under a new uuid
DeviceStart ==
  /\ probe.phase = "device"
  /\ \E e \in {e \in Env : e.out # "raise" /\ (e.flag => e.out = "fail")}, u2 \in BOOLEAN :
       LET res == android_start_session(e) IN
       /\ e.out = "ok" => next_uuid <= MaxIds
       /\ e.out # "ok" => ~u2
       /\ android_SESSIONS' = AndroidSessionsAfter("android_start", NoSid, e)
       /\ next_uuid' = IF e.out = "ok" THEN next_uuid + 1 ELSE next_uuid
       /\ probe' = [probe EXCEPT
                      !.driver = IF e.out = "ok" THEN [@ EXCEPT ![NewSid] = u2] ELSE @,
                      !.started = IF e.out = "ok" THEN @ \cup {NewSid} ELSE @,
                      !.op = [name |-> "start_session", session_id |-> res.session_id,
                              live |-> FALSE, attached |-> u2, valid |-> TRUE,
                              driver |-> "ok",
                              out |-> TapResult(FALSE, res.success, res.error, <<"adb">>)]]
  /\ UNCHANGED <<loopVars, browser_SESSIONS, destroyed, lost>>

\* android_tool.stop_session
DeviceStop ==
  /\ probe.phase = "device"
  /\ \E session_id \in Ids :
       LET e == [out |-> "ok", flag |-> FALSE]
           res == stop_session(session_id, e)
       IN
       /\ android_SESSIONS' = AndroidSessionsAfter("android_stop", session_id, e)
       /\ probe' = [probe EXCEPT
                      !.stopped = IF session_id \in android_SESSIONS
                                  THEN @ \cup {session_id} ELSE @,
                      !.op = [name |-> "stop_session", session_id |-> session_id,
                              live |-> session_id \in android_SESSIONS,
                              attached |-> probe.driver[session_id], valid |-> TRUE,
                              driver |-> "ok",
                              out |-> TapResult(FALSE, res.success, res.error, <<>>)]]
  /\ UNCHANGED <<loopVars, browser_SESSIONS, next_uuid, destroyed, lost>>

\* any other operation of android_tool on a session id
DeviceOp ==
  /\ probe.phase = "device"
  /\ \E name \in ShellBacked \cup DriverOnly \cup {"tap_coordinates"},
        session_id \in Ids, x \in DeviceTaps, env \in DeviceEnv :
       /\ name # "tap_coordinates" => x.tag = "int"
       /\ name \notin {"swipe", "find_elements"} => env.valid
       /\ name \notin DriverOnly => ~env.found
       /\ probe' = [probe EXCEPT
                      !.op = [name |-> name, session_id |-> session_id,
                              live |-> session_id \in android_SESSIONS,
                              attached |-> probe.driver[session_id],
                              valid |-> env.valid /\ x.tag = "int",
                              driver |-> env.driver,
                              out |-> device_op(name, session_id, x,
                                                probe.driver[session_id], env)]]
  /\ UNCHANGED <<loopVars, regVars>>

NextDevice ==
  \/ DeviceStart
  \/ DeviceStop
  \/ DeviceOp

SpecDevice == InitDevice /\ [][NextDevice]_vars


\* ====================================================================
\* Properties
\* ====================================================================
Range(s) == {s[i] : i \in DOMAIN s}

\* the step is one of chat(), not the death of the worker
StepOfChat == lost' = lost

ToolMsgCount(msgs) == Cardinality({i \in DOMAIN msgs : msgs[i].role = "tool"})

\* --------------------------------------------------------------------
\* C1: whenever a skill implementation raises while the loop dispatches a
\* requested tool call, chat() does not raise: the call is recorded as a
\* failure, one corrective system message is appended, and the loop goes on.
C1_SkillExceptionBecomesFailure ==
  last.res.raised =>
    /\ pc \in {"calls", "round"}
    /\ Len(SelectSeq(step_msgs, LAMBDA m : m = CorrectiveMsg)) = 1

\* --------------------------------------------------------------------
\* C2: a call of a session-scoped skill that carries no session_id while no
\* session of its kind is active ends as a failure with error
\* session_not_found; it does not raise and is not taken for a success.
C2_MissingSessionIsNotFound ==
  ( /\ TakesSessionId(last.name)
    /\ last.name \notin {"browser_close", "android_stop"}
    /\ last.sid = NoSid
    /\ last.res.error # "pc_browser_disabled" )
  => /\ ~last.res.raised
     /\ IsFailure(last.res)
     /\ last.res.error = "session_not_found"

\* --------------------------------------------------------------------
\* C3 as stated: at most one live browser session, and a browser start
\* requested while a session is live returns that session's id with
\* reused=true and creates no session.
C3_StartWhileLiveIsReused ==
  [][ /\ Cardinality(browser_SESSIONS') <= 1
      /\ ( /\ pc = "calls"
           /\ StepOfChat
           /\ last'.name = "browser_start"
           /\ browser_SESSIONS # {}
           /\ ~mobile_only
           /\ ~last'.res.raised )
         => /\ browser_SESSIONS' = browser_SESSIONS
            /\ last'.res.session_id \in browser_SESSIONS
            /\ last'.res.reused ]_vars

\* C3 as amended: at most one live browser session; a browser start requested
\* while a session is live creates no session, and the result it returns
\* (unless the run is mobile-only, where the start is refused) carries the
\* live session's id, marked reused by the worker or reused_by_orchestrator
\* by the loop.
C3_StartWhileLiveCreatesNone ==
  [][ /\ Cardinality(browser_SESSIONS') <= 1
      /\ ( /\ pc = "calls"
           /\ StepOfChat
           /\ last'.name = "browser_start"
           /\ browser_SESSIONS # {} )
         => /\ browser_SESSIONS' = browser_SESSIONS
            /\ \/ last'.res.raised
               \/ mobile_only /\ last'.res.error = "pc_browser_disabled"
               \/ /\ last'.res.session_id \in browser_SESSIONS
                  /\ last'.res.reused # last'.res.reused_by_orchestrator
                  /\ last'.res.reused_by_orchestrator
                       <=> active_browser_session_id # NoSid ]_vars

\* a start answered by the worker with the id of the session it already holds
C3_Witness ==
  /\ last.name = "browser_start"
  /\ last.res.reused
  /\ last.res.session_id \in browser_SESSIONS

\* --------------------------------------------------------------------
\* C4: when every round of the budget has been used, the loop makes exactly
\* one reasoning-service call without tools and returns completed when that
\* call gives non-empty text, failed otherwise (also when it raises).
C4_ReviewAfterBudget ==
  [][ /\ (pc = "round" /\ round = max_rounds /\ StepOfChat)
         => /\ pc' = "done"
            /\ review_calls' = 1
            /\ review_reply' \in {"text", "empty", "raise"}
            /\ state' = (IF review_reply' = "text" THEN "completed" ELSE "failed")
      /\ review_calls' > 0 => (pc' = "done" /\ round' = max_rounds) ]_vars

\* the review call raised and the run returned failed
C4_Witness ==
  /\ pc = "done"
  /\ round = max_rounds
  /\ review_calls = 1
  /\ review_reply = "raise"
  /\ state = "failed"

\* --------------------------------------------------------------------
\* C5: the tool messages appended since the last reasoning-service call carry
\* the ids of the calls handled so far, one each, in the order requested, and
\* when the next reasoning-service call can be made all of them are there.
C5_ToolMessagesInOrder ==
  pc \in {"calls", "round"} =>
    /\ ci <= n_calls
    /\ tool_ids = [i \in 1..ci |-> i]
    /\ pc = "round" => ci = n_calls
    /\ ci > 0 => (ToolMsgCount(step_msgs) = 1 /\ step_msgs[1] = ToolMsg(ci))

\* a turn of two calls fully dispatched, before the next reasoning-service call
C5_Witness ==
  /\ pc = "round"
  /\ n_calls = 2
  /\ tool_ids = <<1, 2>>
  /\ step_msgs[1] = ToolMsg(2)

\* --------------------------------------------------------------------
\* C7: within one run of chat(), once the game-mode flag is true it is true
\* in every later state of the run; no tool outcome clears it.
C7_GameModeSticks ==
  [][ (is_game_ui /\ pc' \in {"calls", "round"}) => is_game_ui' ]_vars

\* game mode is on and the loop has just handled a large UI dump
C7_Witness ==
  /\ is_game_ui
  /\ last.name = "android_dump_ui"
  /\ IsTruthySuccess(last.res)
  /\ ~last.res.small
  /\ GameModeMsg \notin Range(step_msgs)

C6_DefaultSuccess ==
  (probe.phase = "dec_out" /\ probe.res.success = "absent")
    => probe.out = Decisions(probe.name, [probe.res EXCEPT !.success = "true"])

\* --------------------------------------------------------------------
\* the inputs C10 says are rejected: a number that is not positive, a value
\* that is no number, a list that does not hold exactly one acceptable number
ScalarRejected(v) ==
  \/ v.tag \in {"int", "str_int"} /\ v.n <= 0
  \/ v.tag = "frac" /\ v.n < 0
  \/ v.tag \in {"str_bad", "inf", "str_inf", "nan", "none"}

Rejected(v) ==
  IF v.tag = "list"
  THEN Len(v.items) # 1 \/ ScalarRejected(v.items[1])
  ELSE ScalarRejected(v)

\* C10: for every input where x or y is not positive, not a number, or a list
\* that cannot be coerced to one integer, tap_coordinates returns a failure
\* with error invalid_coordinates, does not raise and calls no driver or adb.
C10_InvalidCoordinatesRejected ==
  (probe.phase = "tap_out" /\ (Rejected(probe.x) \/ Rejected(probe.y)))
    => /\ ~probe.out.raised
       /\ probe.out.success = "false"
       /\ probe.out.error = "invalid_coordinates"
       /\ probe.out.device_calls = 0

\* a device start that failed with no_device is the call the loop made last
NoDeviceStart == last.name = "android_start" /\ last.res.error = "no_device"

\* C11 as stated: whenever a run's device start fails with no_device, the run
\* has returned waiting_user and dispatched nothing after the failed start
C11_NoDeviceMeansWaitingUser ==
  NoDeviceStart => (pc = "done" /\ state = "waiting_user")

\* C11 amended: when the bootstrap of a mobile-workflow run fails to start a
\* device session with no_device, the run returns waiting_user with no device
\* session, no device operation after the failed start and no tool dispatch
C11_BootstrapNoDeviceWaits ==
  (mobile_only /\ NoDeviceStart) =>
    /\ pc = "done"
    /\ state = "waiting_user"
    /\ IsFailure(last.res)
    /\ active_android_session_id = NoSid
    /\ round = 0
    /\ n_calls = 0
    /\ tool_ids = <<>>
    /\ step_msgs = PlanMsgs(TRUE)

C11_Witness ==
  /\ mobile_only
  /\ NoDeviceStart
  /\ pc = "done"
  /\ state = "waiting_user"

\* the call the loop handled last in a mobile-only run asked for a browser skill
MobileBrowserCall == mobile_only /\ IsBrowser(last.name)

\* C12 as stated: in a mobile-only run every requested browser_* call is
\* answered success=false with error `disabled` and sends the worker nothing
C12_BrowserCallDisabled ==
  MobileBrowserCall =>
    /\ IsFailure(last.res)
    /\ last.res.error = "disabled"
    /\ ~last.via_worker

\* C12 amended: in a mobile-only run every requested browser_* call is answered
\* success=false with error pc_browser_disabled, the worker receives no request
\* and no step of the run changes the worker's sessions
C12_BrowserCallRejected ==
  /\ [](MobileBrowserCall =>
          /\ IsFailure(last.res)
          /\ last.res.error = "pc_browser_disabled"
          /\ ~last.res.raised
          /\ ~last.via_worker)
  /\ [][(mobile_only /\ pc = "calls" /\ StepOfChat)
          => browser_SESSIONS' = browser_SESSIONS]_vars

C12_Witness ==
  /\ MobileBrowserCall
  /\ pc \in {"calls", "round"}
  /\ last.res.error = "pc_browser_disabled"
  /\ browser_SESSIONS # {}

\* the run's last step was a call of chat.completions.create in a round of the
\* loop, and that call raised
ReasoningRaised == last.name = "create"

\* C13: when the reasoning-service call raises in a round of the loop, chat()
\* does not raise: it returns state failed, and the sessions stay open
C13_ReasoningFailureReturnsFailed ==
  /\ [](ReasoningRaised => (pc = "done" /\ state = "failed"))
  /\ [][ReasoningRaised' =>
          (browser_SESSIONS' = browser_SESSIONS /\ android_SESSIONS' = android_SESSIONS)]_vars

\* the calls made to on_step_start and on_step_end, in order
StepLog == SelectSeq(probe.with.log, LAMBDA e : e[1] \in {"start", "end"})

\* C14: every step-start with index i is followed by exactly one step-end with
\* index i before any other step-start and before the run ends, whatever the
\* call does (succeed, fail, be rejected by the gate, raise)
C14_StepStartHasStepEnd ==
  (probe.phase = "hook" /\ probe.hooks.on_step_start # "absent"
                        /\ probe.hooks.on_step_end # "absent") =>
    /\ \A k \in DOMAIN StepLog :
         /\ StepLog[k][1] = (IF k % 2 = 1 THEN "start" ELSE "end")
         /\ StepLog[k][2] = (k - 1) \div 2
    /\ probe.with.at \in {"ret", "raised"} => Len(StepLog) % 2 = 0

\* what a caller of chat() gets from a run: how it ended, and the trace
Outcome(r) == [at |-> r.at, step_index |-> r.step_index, trace |-> r.trace]

StateChangeOrder ==
  {<<"planning", "executing">>,
   <<"executing", "waiting_user">>, <<"executing", "review">>, <<"executing", "completed">>,
   <<"review", "completed">>, <<"review", "failed">>}

\* C16: the state_change events of a run start with planning, executing;
\* each follows the one before it by planning -> executing -> {waiting_user,
\* review, completed}, review -> {completed, failed}; and once the run is
\* over the last of them is the state chat() returned, one of waiting_user,
\* completed and failed
C16_StateChangesEndInReturnedState ==
  /\ \A k \in DOMAIN emitted :
       /\ k = 1 => emitted[k] = "planning"
       /\ k > 1 => <<emitted[k - 1], emitted[k]>> \in StateChangeOrder
  /\ pc \in {"round", "calls"} => (Len(emitted) = 2 /\ state = "executing")
  /\ pc \in {"done", "raised"} =>
       /\ emitted # <<>>
       /\ emitted[Len(emitted)] \in {"waiting_user", "completed", "failed"}
       /\ pc = "done"
       /\ state = emitted[Len(emitted)]

\* the call handled last asked for a session start and its result reports a
\* session id without a failure
StartReportsSession ==
  /\ last.name \in {"browser_start", "android_start"}
  /\ ~last.res.raised
  /\ ~IsFailure(last.res)
  /\ last.res.session_id # NoSid

\* C17: once a close or stop of a session has returned success, no later start
\* request reports that session's id as a usable session
C17_DestroyedIdNeverReported ==
  StartReportsSession => last.res.session_id \notin destroyed

\* C18: after the worker died, every operation addressed to a session of the
\* dead worker is answered session_not_found, and a start request reports a
\* session with a new id, never the id of a session that ended with the worker
C18_StartAfterDeathIsNew ==
  [][(pc = "calls" /\ StepOfChat /\ ~last'.res.raised /\ ~mobile_only) =>
       /\ (IsBrowser(last'.name) /\ last'.name # "browser_start" /\ last'.sid \in lost)
            => (IsFailure(last'.res) /\ last'.res.error = "session_not_found")
       /\ (StartReportsSession' /\ last'.name = "browser_start")
            => last'.res.session_id \notin lost]_vars

\* the request an operation of the table serves by returning
Returns(task) == task.op \in DISPATCH /\ ~task.raises

\* C19: for every request other than the sentinel that the worker dequeues it
\* pushes exactly one response before it dequeues the next, (true, result)
\* when the operation returns and (false, error) when it raises or is not in
\* the table; it goes on after a failure and stops only on the sentinel
C19_OneResponsePerRequest ==
  probe.phase = "worker" =>
    /\ Len(probe.res_q) = Len(probe.taken) - (IF probe.at = "run" THEN 1 ELSE 0)
    /\ \A k \in DOMAIN probe.res_q : probe.res_q[k].ok = Returns(probe.taken[k])
    /\ probe.at = "stopped" <=> probe.task = Sentinel

C19_Witness ==
  /\ probe.phase = "worker"
  /\ Len(probe.res_q) = 3
  /\ ~probe.res_q[1].ok
  /\ ~probe.res_q[2].ok
  /\ probe.res_q[3].ok
  /\ probe.taken[1].op = "no_such_op"
  /\ probe.taken[2].raises

\* the message holds a number of eleven digits that starts with 1 and stands
\* free of word characters on both sides
HoldsPhone(m) ==
  \E k \in DOMAIN m :
    /\ m[k] = [kind |-> "digits", len |-> PhoneLen, one |-> TRUE]
    /\ \A j \in {k - 1, k + 1} \cap DOMAIN m : m[j].kind # "word"

\* C20: the plan has the step open_xhs, every step is pending, required_inputs
\* always holds the verification code, and holds the phone exactly when no
\* phone number can be extracted from the message
C20_PlanAsksForWhatIsMissing ==
  probe.phase = "plan_out" =>
    LET plan == probe.plan IN
    /\ "open_xhs" \in DOMAIN plan.steps
    /\ \A st \in DOMAIN plan.steps : plan.steps[st] = "pending"
    /\ "sms_code" \in Range(plan.required_inputs)
    /\ "phone" \in Range(plan.required_inputs) <=> ~HoldsPhone(probe.user_message)
    /\ (plan.phone = NoMatch) <=> ~HoldsPhone(probe.user_message)

C20_Witness ==
  /\ probe.phase = "plan_out"
  /\ HoldsPhone(probe.user_message)
  /\ Len(probe.user_message) = 3
  /\ probe.plan.required_inputs = <<"sms_code">>

\* C21: for a message that holds a phone number, the plan has a step with id
\* prepare_login and its phone field is the number extracted from the message
C21_PlanHasLoginStep ==
  (probe.phase = "plan_out" /\ HoldsPhone(probe.user_message)) =>
    /\ "prepare_login" \in DOMAIN probe.plan.steps
    /\ probe.plan.phone # NoMatch
    /\ probe.plan.phone = extract_phone(probe.user_message)

\* two different keywords occur in the lower-cased message
TwoKeywords(m) ==
  \E i, j \in DOMAIN m :
    /\ lower(m[i]) \in IntentKeys
    /\ lower(m[j]) \in IntentKeys
    /\ lower(m[i]) # lower(m[j])

\* C22: the publish intent is detected exactly when two of the five keywords
\* occur in the lower-cased message; create_plan is called once, before the
\* first reasoning-service call, when it is detected, and never otherwise
C22_PlanMadeOnceOnIntent ==
  /\ [](probe.phase = "planning" => (probe.plan_calls = 0 /\ probe.reasoning_calls = 0))
  /\ [](probe.phase = "executing" =>
          /\ probe.mobile_only <=> TwoKeywords(probe.user_message)
          /\ probe.plan_calls = (IF TwoKeywords(probe.user_message) THEN 1 ELSE 0))
  /\ [][probe.phase = "executing" => probe'.plan_calls = probe.plan_calls]_vars

C22_Witness ==
  /\ probe.phase = "executing"
  /\ probe.user_message = <<"XHS", "tianqi", "biji">>
  /\ probe.plan_calls = 1
  /\ probe.reasoning_calls = 2

\* C23: the names of the catalog are the names the dispatcher maps to an
\* implementation: a catalog name reaches an implementation that exists, and a
\* name the dispatcher knows is in the catalog
C23_CatalogMatchesDispatcher ==
  probe.phase = "skill_out" =>
    /\ probe.in_catalog <=> probe.outcome # "unknown_skill"
    /\ probe.in_catalog => probe.outcome # "ImportError"

\* the active session of the kind a session-scoped skill works on; NoSid for
\* start, close, stop and list calls and for skills that take no session
ActiveFor(name) ==
  IF name \in {"browser_open", "browser_get_visible_inputs", "browser_screenshot"}
  THEN active_browser_session_id
  ELSE IF name \in {"android_dump_ui", "android_find_elements", "android_screenshot"}
  THEN active_android_session_id
  ELSE NoSid

\* C24: a session-scoped call without session_id gets the active session of
\* its kind when there is one; a session_id the reasoning service supplied is
\* kept; start, close, stop and list calls get no injected session_id
C24_InjectionFillsOnlyMissingId ==
  probe.phase = "inject_out" =>
    /\ probe.arg_sid # NoSid => probe.session_id = probe.arg_sid
    /\ probe.arg_sid = NoSid => probe.session_id = ActiveFor(probe.name)

C24_Witness ==
  /\ probe.phase = "inject_out"
  /\ probe.name = "android_dump_ui"
  /\ probe.arg_sid = NoSid
  /\ active_browser_session_id = 1
  /\ active_android_session_id = 2
  /\ probe.session_id = 2

\* a step of chat() that handles a reply without tool calls
ReplyStep == StepOfChat /\ last'.name = "reply"

\* the plan has a step that is not completed
Pending(plan) == \E s \in DOMAIN plan : plan[s] # "completed"

\* the reply holds a question mark or one of the keys that ask for input
Asks(reply) == \E i \in DOMAIN reply : reply[i] \in QuestionMarks \cup InputKeys

\* C25: no tool calls and an empty reply while the plan has a step not
\* completed: one system nudge is appended and the loop goes on with the next
\* round; no tool calls, a reply that asks nothing, and a non-empty reply or
\* no incomplete step: chat() returns state completed
C25_SilenceWithPendingWorkIsNudged ==
  [][ReplyStep =>
       /\ (last'.reply = <<>> /\ Pending(workflow_plan)) =>
            /\ step_msgs' = <<NudgeMsg>>
            /\ pc' = "round"
            /\ round' = round + 1
            /\ state' = state
       /\ (~Asks(last'.reply) /\ (last'.reply # <<>> \/ ~Pending(workflow_plan))) =>
            /\ pc' = "done"
            /\ state' = "completed"]_vars

C25_Witness ==
  /\ last.name = "reply"
  /\ last.reply = <<>>
  /\ step_msgs = <<NudgeMsg>>
  /\ pc = "round"
  /\ round = 2
  /\ Pending(workflow_plan)

\* C26: a reply without tool calls that asks for input makes chat() return at
\* once with state waiting_user and that reply: no reasoning-service or tool
\* call follows in the run and no plan step changes; an empty reply never
\* asks for input
C26_AskingReplyReturnsWaitingUser ==
  [][ReplyStep =>
       /\ Asks(last'.reply) =>
            /\ pc' = "done"
            /\ state' = "waiting_user"
            /\ workflow_plan' = workflow_plan
            /\ review_calls' = review_calls
            /\ UNCHANGED regVars
       /\ last'.reply = <<>> => state' # "waiting_user"]_vars

C26_Witness ==
  /\ pc = "done"
  /\ state = "waiting_user"
  /\ last.name = "reply"
  /\ last.reply = <<"hao", "?">>
  /\ Pending(workflow_plan)

\* a step of chat() that dispatched a requested call and got a ToolResult
ResultStep == StepOfChat /\ pc = "calls" /\ ~last'.res.raised

\* the corrective messages among msgs
Correctives(msgs) == {i \in DOMAIN msgs : msgs[i] = CorrectiveMsg}

\* C27: a requested call whose ToolResult has success=false gets exactly one
\* corrective system message directly after its tool message, and the loop
\* goes on with the remaining calls of the turn and the next round; a call
\* whose result is no failure gets no corrective message
C27_FailureGetsOneCorrectiveMessage ==
  [][ResultStep =>
       /\ step_msgs'[1] = ToolMsg(ci + 1)
       /\ last'.res.success = "false" =>
            /\ Correctives(step_msgs') = {2}
            /\ ci' = ci + 1
            /\ pc' = (IF ci' < n_calls THEN "calls" ELSE "round")
            /\ state' = state
       /\ last'.res.success # "false" => Correctives(step_msgs') = {}]_vars

C27_Witness ==
  /\ last.res.success = "false"
  /\ ~last.res.raised
  /\ ci = 1
  /\ n_calls = 2
  /\ pc = "calls"
  /\ step_msgs = <<ToolMsg(1), CorrectiveMsg>>

\* a chat() run is under way
Running == pc \in {"round", "calls"}

\* C28: a chat() run whose reasoning-service and tool calls all come back
\* terminates: at most max_rounds reasoning calls with tools and at most one
\* final call without tools, and a nudge round counts against max_rounds
C28_ChatTerminates ==
  /\ Running ~> ~Running
  /\ [](round <= max_rounds /\ review_calls <= 1)
  /\ [][(StepOfChat /\ pc = "round" /\ review_calls' = review_calls)
          => (round < max_rounds /\ (Running' => round' = round + 1))]_vars
  /\ [][(StepOfChat /\ review_calls' # review_calls /\ Running)
          => (round = max_rounds /\ ~Running')]_vars

C28_Witness ==
  /\ pc = "done"
  /\ round = max_rounds
  /\ review_calls = 1
  /\ last.name = "none"
  /\ state = "completed"

\* C29: every browser operation the supervisor invokes comes back with a
\* value or an exception, also when the worker dies between the request and
\* the response: the supervisor is never blocked on the response queue forever
C29_BrowserOperationComesBack ==
  (probe.phase = "supervisor" /\ probe.at[1] = "blocked")
    ~> (probe.at[1] = "idle" /\ probe.got[1] # NoResponse)

\* C30: with two threads of the supervisor calling browser operations at the
\* same time, at most one worker process is started and each thread receives
\* the response to its own request
C30_OneWorkerOwnResponse ==
  probe.phase = "supervisor" =>
    /\ probe.started <= 1
    /\ \A c \in DOMAIN probe.at :
         probe.got[c] # NoResponse =>
           /\ probe.got[c].from = c
           /\ probe.got[c].n = probe.task[c].n

\* the error of an operation that needs the driver on a session without one
\* (the code spells the driver's name: uiautomator2)
driver_required == "uiautomator2_required"

C32_RegistryIsStartedMinusStopped ==
  /\ [](probe.phase = "device" =>
          /\ android_SESSIONS = probe.started \ probe.stopped
          /\ (probe.op.name = "stop_session" /\ ~probe.op.live) =>
               probe.op.out.error = "session_not_found"
          /\ (probe.op.name \notin {"none", "start_session"} /\ ~probe.op.live) =>
               /\ ~probe.op.out.raised
               /\ probe.op.out.success = "false"
               /\ probe.op.out.log = <<>>)
  /\ [][probe.phase = "device" =>
          /\ probe'.op.name = "start_session" =>
               android_SESSIONS' \ android_SESSIONS \subseteq Ids \ probe.started
          /\ probe'.op.name = "stop_session" =>
               android_SESSIONS' = android_SESSIONS \ {probe'.op.session_id}]_vars

\* a step that starts a chat() run
RunStarts == pc \in {"idle", "done", "raised"}

\* step s of the plan is completed by this step of chat()
NewlyCompleted(s) ==
  /\ s \in DOMAIN workflow_plan'
  /\ workflow_plan'[s] = "completed"
  /\ RunStarts \/ workflow_plan[s] # "completed"

\* C33: a plan step changes its status only after a tool outcome: it is set
\* to completed only directly after the tool operation it stands for returned
\* success (open_xhs: android_open_app), a completed step stays completed for
\* the rest of the run, and no reply of the reasoning service changes a step
C33_StepCompletedOnlyOnToolSuccess ==
  [][StepOfChat =>
       /\ \A s \in StepIds :
            NewlyCompleted(s) => (s = "open_xhs" /\ last'.opened = "true")
       /\ ~RunStarts =>
            \A s \in DOMAIN workflow_plan :
              workflow_plan[s] = "completed" =>
                (s \in DOMAIN workflow_plan' /\ workflow_plan'[s] = "completed")
       /\ last'.name \in {"reply", "create"} => workflow_plan' = workflow_plan]_vars

\* the result of this step is a UI-tree dump below the size threshold
SmallDump ==
  /\ last'.name = "android_dump_ui"
  /\ last'.res.success = "true"
  /\ last'.res.small

\* the result of this step is an element search without a match, and so was
\* the result of the element search before it
SecondEmptySearch ==
  /\ last'.name = "android_find_elements"
  /\ last'.res.found = 0
  /\ find_empty_streak >= 1

\* the game-mode instructions among msgs
GameModeMsgs(msgs) == {i \in DOMAIN msgs : msgs[i] = GameModeMsg}

\* C34: game mode becomes active exactly on a UI-tree dump below the size
\* threshold or on the second of two consecutive element searches without a
\* match; a search with a match sets the streak to zero; nothing else
\* activates game mode, and the game-mode instruction is appended once in a
\* run, in the step that activates it
C34_GameModeActivation ==
  [][(StepOfChat /\ Running /\ Running') =>
       /\ is_game_ui => is_game_ui'
       /\ (~is_game_ui /\ is_game_ui') <=> (~is_game_ui /\ ResultStep
                                              /\ (SmallDump \/ SecondEmptySearch))
       /\ (ResultStep /\ last'.name = "android_find_elements" /\ last'.res.found >= 1)
            => find_empty_streak' = 0
       /\ Cardinality(GameModeMsgs(step_msgs')) = IF ~is_game_ui /\ is_game_ui' THEN 1 ELSE 0
     ]_vars

C34_Witness ==
  /\ is_game_ui
  /\ last.name = "android_find_elements"
  /\ last.res.found = 0
  /\ find_empty_streak = 2
  /\ GameModeMsgs(step_msgs) # {}

\* the system message that reports the outcome of an autopilot action
ReportOf(a) ==
  IF a = "fill" THEN AutoMsg("auto_fill")
  ELSE IF a = "agree" THEN AutoMsg("auto_agree")
  ELSE AutoMsg("auto_code")

\* C35: every action the login autopilot attempts (phone fill, agreement
\* check, code click), on the device path as on the browser path, has a system
\* message reporting its outcome appended to the conversation before the next
\* reasoning-service call
C35_AutopilotActionsReported ==
  [][ResultStep =>
       \A a \in auto_now' : \E i \in DOMAIN step_msgs' : step_msgs'[i] = ReportOf(a)]_vars

\* C36: at every point of a chat() run an active browser or device pointer
\* that is set names a session live in its registry; after a successful close
\* or stop of the active session the pointer no longer names it
C36_ActivePointerIsLive ==
  /\ [](Running =>
          /\ active_browser_session_id # NoSid =>
               active_browser_session_id \in browser_SESSIONS
          /\ active_android_session_id # NoSid =>
               active_android_session_id \in android_SESSIONS)
  /\ [][(ResultStep /\ last'.name \in {"browser_close", "android_stop"}
           /\ last'.res.success = "true")
          => /\ active_browser_session_id' \notin {last'.sid} \ {NoSid}
             /\ active_android_session_id' \notin {last'.sid} \ {NoSid}]_vars

\* C37: a requested call whose name is not in the dispatch table is recorded
\* as a failure: its ToolResult has success=false and an error, and the loop
\* appends the corrective system message for it as for any other failure
C37_UnknownSkillIsFailure ==
  [][(ResultStep /\ last'.name \notin KnownSkills) =>
       /\ last'.res.success = "false"
       /\ last'.res.error # "none"
       /\ Correctives(step_msgs') = {2}]_vars

====
